---- MODULE Spec2Model ----
(***************************************************************************)
(* A model of surf's content acquisition and extraction core               *)
(* (src/surf.py, src/surf_web.py): proxy resolution, the policy           *)
(* resolution of the two entry points, the Fetcher state machine with its  *)
(* site handlers and the authenticated session store, and the extraction   *)
(* tiers of ContentProcessor.extract_content.                              *)
(*                                                                         *)
(* Python values are modelled as follows.  None and a missing key are the  *)
(* string Absent; the empty string is "".  Both are falsy.  A requests     *)
(* proxy dict and a Playwright proxy dict are records with an isNone flag, *)
(* so that None, the empty dict {} and a filled dict stay distinct.        *)
(***************************************************************************)
EXTENDS Integers, Sequences, FiniteSets, TLC

VARIABLES
    \* ---- inputs shared by the resolvers, the entry points and fetch
    config,                  \* Config: [proxy_mode, custom_proxy] of the INI file
    environ,                 \* os.environ, the six proxy variables
    winreg,                  \* the WinINET registry as the lookups see it
    proxy_mode_override,     \* argument of Fetcher.fetch / _get_proxies
    custom_proxy_override,   \* argument of Fetcher.fetch / _get_proxies
    \* ---- proxy resolution (SpecProxy)
    px_pc,                   \* "call" | "returned"
    px_fn,                   \* which resolver returned
    req_proxies,             \* first component of the resolver's result
    pw_proxy,                \* second component of the resolver's result
    \* ---- the entry points' policy resolution (SpecPolicy)
    url,                     \* the URL: [host, www, path]
    entry,                   \* "cli" (surf.main) | "web" (surf_web.process_url)
    args,                    \* argparse namespace of main
    data,                    \* request.json of process_url
    po_pc,                   \* "start" | "fetch" | "fetching" | "error"
    lang_mode,               \* the language mode the entry point settles on
    mode_used,               \* the mode _get_proxies works with inside the fetch
    \* ---- Fetcher.fetch (Spec)
    pc,                      \* the statement fetch, or the callee it is in, is at
    use_browser,             \* argument of fetch
    outcome,                 \* Absent while running | "returned" | "raised"
    html_content,            \* what fetch returned: which retrieval produced it
    static_response,         \* what requests.get(url) gave: [kind, len, noscript]
    fwb_caller,              \* the call site fetch_with_browser was entered from
    fwb_calls,               \* number of calls of fetch_with_browser
    is_twitter_article,      \* argument of fetch_with_browser
    open_browsers,           \* the browsers launched and not yet closed
    store,                   \* ~/.surf/auth/xiaohongshu_state.json
    xhs_state0,              \* what load_state returned at the handler's first line
    xhs_depth,               \* depth of the recursion of _fetch_xiaohongshu
    login_caller,            \* the call site interactive_login was entered from
    login_count,             \* number of calls of interactive_login
    relogin_count,           \* of these, the calls made after a login redirect
    xhs_navs,                \* number of page.goto(url) of _fetch_xiaohongshu
    redirects,               \* number of navigations that ended on a login URL
    ctx_state,               \* the storage state the handler's context was made with
    nav_count,               \* number of retrievals of the target URL, of any kind
    net_calls,               \* the network retrievals made, each with its proxies
    launched,                \* how many browsers the fetch has launched
    expired,                 \* the sessions in use when a login redirect was detected
    \* ---- ContentProcessor.extract_content (SpecExtract)
    html,                    \* the argument: the document and what the engines do on it
    ex_pc,                   \* the tier extract_content is at
    ex_outcome,              \* Absent while running | "returned" | "raised"
    title,                   \* the title returned
    content,                 \* the content returned: which tier's html it is
    tiers,                   \* the tiers entered, in order
    preprocessed_soup,       \* the soup _preprocess_html returned
    \* ---- _get_handler_for_url and its cache (SpecMatcher)
    compiled,                \* _COMPILED_PATTERNS: site -> times its patterns were stored
    m_pc,                    \* caller -> position in _get_handler_for_url
    m_url,                   \* caller -> the url of its call
    m_site,                  \* caller -> index in SiteOrder of the loop's site
    m_calls,                 \* calls started
    m_returned,              \* calls that have returned
    m_late,                  \* the sites stored after some call had returned
    \* ---- AuthHandler's session files (SpecAuth, SpecWriters)
    as_nocase,               \* the file system ignores the case of file names
    as_dir,                  \* AUTH_STATE_DIR exists
    as_files,                \* file name -> the file
    as_saved,                \* site -> the session last saved since it was cleared
    as_op,                   \* the operation made last
    as_result,               \* what the last load_state returned
    as_ops,                  \* operations made
    w_pc,                    \* writer -> position in save_state
    w_finished               \* the writers that have returned, in order

sharedVars == <<config, environ, winreg, proxy_mode_override, custom_proxy_override>>
proxyVars  == <<px_pc, px_fn, req_proxies, pw_proxy>>
policyVars == <<url, entry, args, data, po_pc, lang_mode, mode_used>>
fetchVars  == <<pc, use_browser, outcome, html_content, static_response, fwb_caller,
                fwb_calls, is_twitter_article, open_browsers, store, xhs_state0,
                xhs_depth, login_caller, login_count, relogin_count, xhs_navs,
                redirects, ctx_state, nav_count, net_calls, launched, expired>>
extractVars == <<html, ex_pc, ex_outcome, title, content, tiers, preprocessed_soup>>
matcherVars == <<compiled, m_pc, m_url, m_site, m_calls, m_returned, m_late>>
storeVars == <<as_nocase, as_dir, as_files, as_saved, as_op, as_result, as_ops,
               w_pc, w_finished>>
vars == <<sharedVars, proxyVars, policyVars, fetchVars, extractVars, matcherVars, storeVars>>

----------------------------------------------------------------------------
(* Python values *)

Absent == "<absent>"

Falsy(x) == x \in {Absent, ""}

\* Python's  a or b
Or(a, b) == IF Falsy(a) THEN b ELSE a

\* str.lower() on the mode strings the model draws
Lower(s) ==
    CASE s = "NO"     -> "no"
      [] s = "Win"    -> "win"
      [] s = "Custom" -> "custom"
      [] s = "ALL"    -> "all"
      [] s = "Xiaohongshu" -> "xiaohongshu"
      [] OTHER        -> s

NoneReq == [isNone |-> TRUE, http |-> Absent, https |-> Absent]
NonePw  == [isNone |-> TRUE, server |-> Absent, bypass |-> Absent]

\* a requests dict; Absent marks a key that is not in the dict
ReqDict(h, s) == [isNone |-> FALSE, http |-> h, https |-> s]
\* a Playwright dict {"server": ..} with an optional "bypass"
PwDict(server, bypass) == [isNone |-> FALSE, server |-> server, bypass |-> bypass]

\* Python truthiness of a dict-or-None
ReqTruthy(r) == ~r.isNone /\ (r.http # Absent \/ r.https # Absent)

\* the value of the variables a specification does not use
IdleProxy ==
    px_pc = "idle" /\ px_fn = Absent /\ req_proxies = NoneReq /\ pw_proxy = NonePw

IdlePolicy ==
    /\ url = Absent /\ entry = Absent /\ args = Absent /\ data = Absent
    /\ po_pc = "idle" /\ lang_mode = Absent /\ mode_used = Absent

\* no response yet; no session (load_state's None, a missing file)
NoResponse == [kind |-> "none", len |-> 0, noscript |-> FALSE]
NoSession  == [kind |-> "none", id |-> 0]

IdleFetch ==
    /\ launched = 0 /\ expired = {}
    /\ pc = "idle" /\ use_browser = FALSE /\ outcome = Absent /\ html_content = Absent
    /\ static_response = NoResponse /\ fwb_caller = Absent /\ fwb_calls = 0
    /\ is_twitter_article = FALSE /\ open_browsers = {} /\ store = NoSession
    /\ xhs_state0 = NoSession /\ xhs_depth = 0 /\ login_caller = Absent
    /\ login_count = 0 /\ relogin_count = 0 /\ xhs_navs = 0 /\ redirects = 0
    /\ ctx_state = NoSession /\ nav_count = 0 /\ net_calls = {}

IdleStore ==
    /\ as_nocase = FALSE /\ as_dir = FALSE /\ as_files = <<>> /\ as_saved = <<>>
    /\ as_op = <<>> /\ as_result = NoSession /\ as_ops = 0
    /\ w_pc = <<>> /\ w_finished = <<>>

IdleMatcher ==
    /\ compiled = <<>> /\ m_pc = <<>> /\ m_url = <<>> /\ m_site = <<>>
    /\ m_calls = 0 /\ m_returned = 0 /\ m_late = {}

IdleExtract ==
    /\ html = Absent /\ ex_pc = "idle" /\ ex_outcome = Absent
    /\ title = Absent /\ content = Absent /\ tiers = <<>>
    /\ preprocessed_soup = <<>>

----------------------------------------------------------------------------
(* Config.get *)

\* config.get("Network", "proxy_mode", fallback="auto")
ConfigProxyMode(cfg) == IF cfg.proxy_mode = Absent THEN "auto" ELSE cfg.proxy_mode

\* config.get("Network", "custom_proxy"): None when the key is missing
ConfigCustomProxy(cfg) == cfg.custom_proxy

----------------------------------------------------------------------------
(* The environment-variable resolution shared by the auto mode and the     *)
(* forced variant.                                                         *)

EnvHttp(env)    == Or(env.http_proxy, env.HTTP_PROXY)
EnvHttps(env)   == Or(env.https_proxy, env.HTTPS_PROXY)
EnvNoProxy(env) == Or(env.no_proxy, env.NO_PROXY)

\* req_proxies = {}; filled with the truthy values
EnvReqDict(env) ==
    ReqDict(IF Falsy(EnvHttp(env)) THEN Absent ELSE EnvHttp(env),
            IF Falsy(EnvHttps(env)) THEN Absent ELSE EnvHttps(env))

\* pw_proxy = {"server": server}, plus "bypass" when no_proxy is set
EnvPwDict(env) ==
    PwDict(Or(EnvHttps(env), EnvHttp(env)),
           IF Falsy(EnvNoProxy(env)) THEN Absent ELSE EnvNoProxy(env))

\* mode == 'auto'
AutoProxies(env) ==
    LET server == Or(EnvHttps(env), EnvHttp(env))
        req    == EnvReqDict(env)
    IN  << IF ReqTruthy(req) THEN req ELSE NoneReq,
           IF Falsy(server) THEN NonePw ELSE EnvPwDict(env) >>

----------------------------------------------------------------------------
(* The WinINET registry.  winreg is a record                               *)
(*   importable : import winreg succeeds                                   *)
(*   readable   : OpenKey / QueryValueEx succeed                           *)
(*   enable     : ProxyEnable                                              *)
(*   server     : ProxyServer, as its ';'-separated parts; a part is       *)
(*                [k, v] for "k=v" and [k |-> Absent, v] for a bare value. *)
(*                <<>> is the empty string.                                *)

\* the for loop over proxy_config.split(";")
RECURSIVE ParseProxyServer(_, _)
ParseProxyServer(parts, acc) ==
    IF parts = <<>> THEN acc
    ELSE LET part == Head(parts)
             nxt  == IF part.k # Absent
                     THEN [http   |-> IF part.k = "http" THEN part.v ELSE acc.http,
                           https  |-> IF part.k = "https" THEN part.v ELSE acc.https,
                           server |-> IF part.k = "http" THEN part.v ELSE acc.server]
                     ELSE [http |-> part.v, https |-> part.v, server |-> part.v]
         IN  ParseProxyServer(Tail(parts), nxt)

ParsedServer(parts) ==
    ParseProxyServer(parts, [http |-> Absent, https |-> Absent, server |-> Absent])

\* proxy_config after the inner try of _get_proxies: None unless enabled and read
RegistryProxyConfig(reg) ==
    IF reg.readable /\ reg.enable THEN reg.server ELSE <<>>

\* WinProxies falling through to auto also when the setting names neither an
\* http nor an https proxy
WinProxies_AutoWithoutHttp(reg) ==
    LET proxy_config == RegistryProxyConfig(reg)
        p  == ParsedServer(proxy_config)
    IN  IF ~reg.importable \/ proxy_config = <<>>
           \/ (p.http = Absent /\ p.https = Absent)
        THEN [fall |-> TRUE, pair |-> <<NoneReq, NonePw>>]
        ELSE [fall |-> FALSE,
              pair |-> << ReqDict(p.http, p.https),
                          IF Falsy(p.server) THEN NonePw ELSE PwDict(p.server, Absent) >>]

\* mode == "win" of _get_proxies: the pair returned, or "fallthrough" to auto
WinProxies(reg) ==
    LET proxy_config == RegistryProxyConfig(reg)
        p  == ParsedServer(proxy_config)
        req == ReqDict(p.http, p.https)
    IN  IF ~reg.importable \/ proxy_config = <<>>
        THEN [fall |-> TRUE, pair |-> <<NoneReq, NonePw>>]
        ELSE [fall |-> FALSE,
              pair |-> << IF p.http = Absent /\ p.https = Absent THEN NoneReq ELSE req,
                          IF Falsy(p.server) THEN NonePw ELSE PwDict(p.server, Absent) >>]

----------------------------------------------------------------------------
(* Fetcher._get_proxies *)

\* ResolvedMode without the .lower() of lines 134 and 136
ResolvedMode_NoLower(cfg, pmo) ==
    IF ~Falsy(pmo) THEN pmo ELSE ConfigProxyMode(cfg)

\* lines 133-137: the mode the resolver works with
ResolvedMode(cfg, pmo) ==
    IF ~Falsy(pmo) THEN Lower(pmo) ELSE Lower(ConfigProxyMode(cfg))

get_proxies(cfg, pmo, cpo, env, reg) ==
    LET mode   == ResolvedMode(cfg, pmo)
        custom == IF ~Falsy(cpo) THEN cpo ELSE ConfigCustomProxy(cfg)
    IN  IF mode = "no" THEN <<NoneReq, NonePw>>
        ELSE IF mode = "set" /\ ~Falsy(custom)
             THEN <<ReqDict(custom, custom), PwDict(custom, Absent)>>
        ELSE IF mode = "win" /\ ~WinProxies(reg).fall
             THEN WinProxies(reg).pair
        ELSE AutoProxies(env)

----------------------------------------------------------------------------
(* Fetcher._get_twitter_forced_proxies *)

\* Priority 2: the WinINET block; its try/except swallows every failure
ForcedWinProxies(reg) ==
    LET p == ParsedServer(reg.server)
    IN  IF reg.importable /\ reg.readable /\ reg.enable /\ reg.server # <<>>
        THEN [fall |-> FALSE,
              pair |-> << ReqDict(p.http, p.https),
                          IF Falsy(p.server) THEN NonePw ELSE PwDict(p.server, Absent) >>]
        ELSE [fall |-> TRUE, pair |-> <<NoneReq, NonePw>>]

get_twitter_forced_proxies(cfg, pmo, cpo, env, reg) ==
    LET mode         == IF Falsy(pmo) THEN Absent ELSE Lower(pmo)
        custom_proxy == ConfigCustomProxy(cfg)
    IN  IF mode = "no" THEN <<NoneReq, NonePw>>
        ELSE IF mode = "set" /\ ~Falsy(cpo)
             THEN <<ReqDict(cpo, cpo), PwDict(cpo, Absent)>>
        \* "win", "auto" and every other mode fall through to the same code
        ELSE IF ~Falsy(EnvHttp(env)) \/ ~Falsy(EnvHttps(env))
             THEN <<EnvReqDict(env), EnvPwDict(env)>>
        ELSE IF ~ForcedWinProxies(reg).fall
             THEN ForcedWinProxies(reg).pair
        ELSE IF ~Falsy(custom_proxy)
             THEN <<ReqDict(custom_proxy, custom_proxy), PwDict(custom_proxy, Absent)>>
        ELSE <<NoneReq, NonePw>>

----------------------------------------------------------------------------
(* The values the model draws *)

ModeStrings == {"auto", "no", "none", "set", "custom", "win", "system", "NO"}

ConfigSet ==
    [proxy_mode : {Absent} \cup (ModeStrings \ {"NO"}),
     custom_proxy : {Absent, "", "http://cfg:1"}]

EnvironSet ==
    [http_proxy  : {Absent, "", "http://envh:1"},
     HTTP_PROXY  : {Absent, "http://ENVH:1"},
     https_proxy : {Absent, "http://envs:1"},
     HTTPS_PROXY : {Absent, "http://ENVS:1"},
     no_proxy    : {Absent, "localhost"},
     NO_PROXY    : {Absent, "LOCAL"}]

Part(k, v) == [k |-> k, v |-> v]

ProxyServerSet ==
    { <<>>,
      <<Part(Absent, "sys:1")>>,
      <<Part("http", "sysh:1"), Part("https", "syss:1")>>,
      <<Part("https", "syss:1")>>,
      <<Part("ftp", "sysf:1")>>,
      <<Part("http", "sysh:1"), Part(Absent, "")>> }

WinregSet ==
    { [importable |-> FALSE, readable |-> FALSE, enable |-> FALSE, server |-> <<>>],
      [importable |-> TRUE,  readable |-> FALSE, enable |-> FALSE, server |-> <<>>],
      [importable |-> TRUE,  readable |-> TRUE,  enable |-> FALSE,
       server |-> <<Part(Absent, "sys:1")>>] }
    \cup { [importable |-> TRUE, readable |-> TRUE, enable |-> TRUE, server |-> s] :
            s \in ProxyServerSet }

ProxyModeOverrideSet == {Absent} \cup ModeStrings
CustomProxyOverrideSet == {Absent, "http://cli:1"}

----------------------------------------------------------------------------
(* SpecProxy: the two resolvers applied to every drawn input *)

InitShared ==
    /\ config \in ConfigSet
    /\ environ \in EnvironSet
    /\ winreg \in WinregSet
    /\ proxy_mode_override \in ProxyModeOverrideSet
    /\ custom_proxy_override \in CustomProxyOverrideSet

InitProxy ==
    /\ InitShared
    /\ px_pc = "call"
    /\ px_fn = Absent
    /\ req_proxies = NoneReq
    /\ pw_proxy = NonePw
    /\ IdlePolicy
    /\ IdleFetch
    /\ IdleExtract
    /\ IdleMatcher
    /\ IdleStore

CallGetProxies ==
    /\ px_pc = "call"
    /\ LET r == get_proxies(config, proxy_mode_override, custom_proxy_override,
                            environ, winreg)
       IN  req_proxies' = r[1] /\ pw_proxy' = r[2]
    /\ px_fn' = "_get_proxies"
    /\ px_pc' = "returned"
    /\ UNCHANGED <<sharedVars, policyVars, fetchVars, extractVars, matcherVars, storeVars>>

CallForcedProxies ==
    /\ px_pc = "call"
    /\ LET r == get_twitter_forced_proxies(config, proxy_mode_override,
                                           custom_proxy_override, environ, winreg)
       IN  req_proxies' = r[1] /\ pw_proxy' = r[2]
    /\ px_fn' = "_get_twitter_forced_proxies"
    /\ px_pc' = "returned"
    /\ UNCHANGED <<sharedVars, policyVars, fetchVars, extractVars, matcherVars, storeVars>>

NextProxy == CallGetProxies \/ CallForcedProxies

SpecProxy == InitProxy /\ [][NextProxy]_vars

----------------------------------------------------------------------------
(* SPECIAL_SITE_HANDLERS and _get_handler_for_url.                         *)
(* A URL is [host, www, path]: host without a leading "www.", www whether  *)
(* the URL has one, path one of the path shapes below.  A pattern is       *)
(* [host, www, paths]: the host it spells, whether it allows "(www\.)?",   *)
(* and the path shapes its tail matches.  The patterns are case-sensitive  *)
(* (re.compile without flags).                                             *)

PathSet == {"/", "/s/id", "/s/id?__biz=1", "/mp/x?__biz=1",
            "/explore/id", "/user/profile/id", "/user/status/1"}

Pattern(host, www, paths) == [host |-> host, www |-> www, paths |-> paths]

SiteOrder == <<"twitter", "wechat", "xiaohongshu">>

SPECIAL_SITE_HANDLERS ==
    [twitter |->
        [patterns |-> << Pattern("twitter.com", TRUE, PathSet),
                         Pattern("x.com", TRUE, PathSet) >>,
         handler |-> "_fetch_twitter_oembed",
         default_no_proxy |-> FALSE,
         default_no_translate |-> FALSE],
     wechat |->
        [patterns |-> << Pattern("mp.weixin.qq.com", FALSE, {"/s/id", "/s/id?__biz=1"}),
                         Pattern("mp.weixin.qq.com", FALSE,
                                 {"/s/id?__biz=1", "/mp/x?__biz=1"}) >>,
         handler |-> "_fetch_wechat_article",
         default_no_proxy |-> TRUE,
         default_no_translate |-> TRUE],
     xiaohongshu |->
        [patterns |-> << Pattern("xiaohongshu.com", TRUE, {"/explore/id"}),
                         Pattern("xiaohongshu.com", TRUE, {"/user/profile/id"}) >>,
         handler |-> "_fetch_xiaohongshu",
         default_no_proxy |-> TRUE,
         default_no_translate |-> TRUE]]

\* pattern.match(url)
PatternMatch(pat, u) ==
    /\ u.host = pat.host
    /\ u.www => pat.www
    /\ u.path \in pat.paths

SiteMatches(site, u) ==
    \E i \in 1..Len(SPECIAL_SITE_HANDLERS[site].patterns) :
        PatternMatch(SPECIAL_SITE_HANDLERS[site].patterns[i], u)

\* the site whose handler _get_handler_for_url returns: the first in dict order
\* with a matching pattern, Absent for (None, None, None)
get_handler_for_url(u) ==
    LET hits == {i \in 1..Len(SiteOrder) : SiteMatches(SiteOrder[i], u)}
    IN  IF hits = {} THEN Absent
        ELSE SiteOrder[CHOOSE i \in hits : \A j \in hits : i <= j]

\* re.match(r"^https?://(www\.)?(twitter|x)\.com/", url, re.IGNORECASE)
is_twitter_url(u) == u.host \in {"twitter.com", "x.com", "X.com"}

UrlSet ==
    { [host |-> "twitter.com", www |-> FALSE, path |-> "/user/status/1"],
      [host |-> "x.com", www |-> TRUE, path |-> "/user/status/1"],
      [host |-> "X.com", www |-> FALSE, path |-> "/user/status/1"],
      [host |-> "mp.weixin.qq.com", www |-> FALSE, path |-> "/s/id"],
      [host |-> "mp.weixin.qq.com", www |-> FALSE, path |-> "/mp/x?__biz=1"],
      [host |-> "mp.weixin.qq.com", www |-> FALSE, path |-> "/"],
      [host |-> "xiaohongshu.com", www |-> TRUE, path |-> "/explore/id"],
      [host |-> "xiaohongshu.com", www |-> FALSE, path |-> "/user/profile/id"],
      [host |-> "xiaohongshu.com", www |-> FALSE, path |-> "/"],
      [host |-> "example.com", www |-> TRUE, path |-> "/"] }

----------------------------------------------------------------------------
(* surf.main, from the proxy validation to the call of Fetcher.fetch       *)

LangSet == {"trans", "raw", "both"}

\* argparse: -x takes win/custom/no; -l/-r/-b exclude one another
ArgsSet ==
    { a \in [proxy : {Absent, "win", "custom", "no"},
             c : BOOLEAN, n : BOOLEAN,
             set_proxy : {Absent, "http://cli:1"},
             lang : {Absent} \cup LangSet,
             r : BOOLEAN, b : BOOLEAN] :
        Cardinality({x \in {"l", "r", "b"} :
                        \/ x = "l" /\ a.lang # Absent
                        \/ x = "r" /\ a.r
                        \/ x = "b" /\ a.b}) <= 1 }

\* parser.error of the two proxy validations
MainArgsRejected(a) ==
    \/ ~Falsy(a.set_proxy) /\ a.proxy # "custom"
    \/ a.proxy = "custom" /\ Falsy(a.set_proxy)

\* lines 2433-2440
MainLangMode(a) ==
    IF ~Falsy(a.lang) THEN a.lang
    ELSE IF a.r THEN "raw"
    ELSE IF a.b THEN "both"
    ELSE "trans"

\* lines 2442-2449
MainProxyMode(a) ==
    IF ~Falsy(a.proxy) THEN a.proxy
    ELSE IF a.c THEN "custom"
    ELSE IF a.n THEN "no"
    ELSE Absent

SiteFlag(site, flag) == site # Absent /\ SPECIAL_SITE_HANDLERS[site][flag]

\* lines 2455-2461
MainSiteProxyMode(site, pm) ==
    IF SiteFlag(site, "default_no_proxy") /\ pm = Absent THEN "no" ELSE pm

\* lines 2463-2465
MainSiteLangMode(site, lm) ==
    IF SiteFlag(site, "default_no_translate") /\ lm = "trans" THEN "raw" ELSE lm

\* surf_web.process_url lines 686-694: data.get("proxy", "auto")
WebProxyMode(d) ==
    LET pm == IF d.proxy = Absent THEN "auto" ELSE d.proxy
    IN  IF pm # "auto" THEN pm ELSE Absent

\* surf_web.process_url line 706: data.get("lang", "trans")
WebLangMode(d) == IF d.lang = Absent THEN "trans" ELSE d.lang

DataSet ==
    [proxy : {Absent, "auto", "no", "win", "custom"},
     custom_proxy : {Absent, "http://web:1"},
     lang : {Absent} \cup LangSet]

NoArgs == [proxy |-> Absent, c |-> FALSE, n |-> FALSE, set_proxy |-> Absent,
           lang |-> Absent, r |-> FALSE, b |-> FALSE]
NoData == [proxy |-> Absent, custom_proxy |-> Absent, lang |-> Absent]

----------------------------------------------------------------------------
(* SpecPolicy: an entry point resolves its policy and starts the fetch     *)

PolicyConfigSet ==
    [proxy_mode : {Absent, "auto", "no", "win"}, custom_proxy : {Absent, "http://cfg:1"}]

InitPolicy ==
    /\ config \in PolicyConfigSet
    /\ environ = [k \in DOMAIN CHOOSE e \in EnvironSet : TRUE |-> Absent]
    /\ winreg \in {r \in WinregSet : ~r.importable}
    /\ url \in UrlSet
    /\ entry \in {"cli", "web"}
    /\ args \in IF entry = "cli" THEN ArgsSet ELSE {NoArgs}
    /\ data \in IF entry = "web" THEN DataSet ELSE {NoData}
    /\ po_pc = "start"
    /\ proxy_mode_override = Absent
    /\ custom_proxy_override = Absent
    /\ lang_mode = Absent
    /\ mode_used = Absent
    /\ IdleProxy
    /\ IdleFetch
    /\ IdleExtract
    /\ IdleMatcher
    /\ IdleStore

\* main: parser.error leaves the program before any fetch
MainRejects ==
    /\ entry = "cli" /\ po_pc = "start"
    /\ MainArgsRejected(args)
    /\ po_pc' = "error"
    /\ UNCHANGED <<config, environ, winreg, proxy_mode_override, custom_proxy_override,
                   url, entry, args, data, lang_mode, mode_used, proxyVars, fetchVars, extractVars, matcherVars, storeVars>>

\* main: lines 2420-2475, up to the call Fetcher.fetch(url, config, ...)
MainPolicy ==
    /\ entry = "cli" /\ po_pc = "start"
    /\ ~MainArgsRejected(args)
    /\ LET site == get_handler_for_url(url)
       IN  /\ proxy_mode_override' = MainSiteProxyMode(site, MainProxyMode(args))
           /\ lang_mode' = MainSiteLangMode(site, MainLangMode(args))
    /\ custom_proxy_override' = args.set_proxy
    /\ po_pc' = "fetch"
    /\ UNCHANGED <<config, environ, winreg, url, entry, args, data, mode_used, proxyVars,
                   fetchVars, extractVars, matcherVars, storeVars>>

\* process_url: lines 684-695 and 706
WebPolicy ==
    /\ entry = "web" /\ po_pc = "start"
    /\ proxy_mode_override' = WebProxyMode(data)
    /\ custom_proxy_override' = data.custom_proxy
    /\ lang_mode' = WebLangMode(data)
    /\ po_pc' = "fetch"
    /\ UNCHANGED <<config, environ, winreg, url, entry, args, data, mode_used, proxyVars,
                   fetchVars, extractVars, matcherVars, storeVars>>

\* Fetcher.fetch: the handler's, or fetch's own, call of _get_proxies with the
\* overrides it was given
FetchResolvesProxies ==
    /\ po_pc = "fetch"
    /\ mode_used' = ResolvedMode(config, proxy_mode_override)
    /\ LET r == get_proxies(config, proxy_mode_override, custom_proxy_override,
                            environ, winreg)
       IN  req_proxies' = r[1] /\ pw_proxy' = r[2]
    /\ px_fn' = "_get_proxies"
    /\ po_pc' = "fetching"
    /\ UNCHANGED <<config, environ, winreg, proxy_mode_override, custom_proxy_override,
                   url, entry, args, data, lang_mode, px_pc, fetchVars, extractVars, matcherVars, storeVars>>

NextPolicy == MainRejects \/ MainPolicy \/ WebPolicy \/ FetchResolvesProxies

SpecPolicy == InitPolicy /\ [][NextPolicy]_vars

----------------------------------------------------------------------------
(* Fetcher.fetch and the callees that decide its control flow.             *)
(* One action per external call (HTTP request, browser launch, context,    *)
(* page, navigation, console prompt); its outcome is drawn with \E.  The   *)
(* Python between two external calls belongs to the action of the call it  *)
(* follows.                                                                *)

authVars == <<store, xhs_state0, xhs_depth, login_caller, login_count, relogin_count,
              xhs_navs, redirects, ctx_state>>
fwbVars  == <<fwb_caller, fwb_calls, is_twitter_article>>
fetchIn  == <<sharedVars, url, use_browser>>
notFetch == <<proxyVars, entry, args, data, po_pc, lang_mode, mode_used, extractVars, matcherVars, storeVars>>

StdProxies ==
    get_proxies(config, proxy_mode_override, custom_proxy_override, environ, winreg)
ForcedProxies ==
    get_twitter_forced_proxies(config, proxy_mode_override, custom_proxy_override,
                               environ, winreg)

NetCall(what, resolver, pair) ==
    [what |-> what, resolver |-> resolver, req |-> pair[1], pw |-> pair[2]]

DynamicThreshold == 1000

\* line 290 with <= for <
IsLikelyDynamic_Le(resp) == resp.len <= DynamicThreshold \/ resp.noscript

\* line 290: len(response.text) < 1000 or "<noscript>" in response.text
IsLikelyDynamic(resp) == resp.len < DynamicThreshold \/ resp.noscript

\* the responses requests.get(url) + raise_for_status() can give; a body that
\* contains "<noscript>" has at least its ten characters
NoscriptLen == 10
ResponseSet ==
    { [kind |-> "network_error", len |-> 0, noscript |-> FALSE],
      [kind |-> "http_error", len |-> 0, noscript |-> FALSE] }
    \cup { r \in [kind : {"ok"},
                  len : {18, DynamicThreshold - 1, DynamicThreshold,
                         DynamicThreshold + 1},
                  noscript : BOOLEAN] : r.noscript => r.len >= NoscriptLen }

FetchConfigSet ==
    { [proxy_mode |-> Absent, custom_proxy |-> Absent],
      [proxy_mode |-> "no", custom_proxy |-> "http://cfg:1"] }

FetchEnvironSet ==
    { e \in EnvironSet : /\ e.HTTP_PROXY = Absent /\ e.https_proxy = Absent
                         /\ e.HTTPS_PROXY = Absent /\ e.no_proxy = Absent
                         /\ e.NO_PROXY = Absent /\ e.http_proxy # "" }

\* the session file before the fetch: missing, unreadable JSON, or a saved session
StoreSet == {NoSession, [kind |-> "corrupt", id |-> 0], [kind |-> "session", id |-> 0]}

Init ==
    /\ config \in FetchConfigSet
    /\ environ \in FetchEnvironSet
    /\ winreg \in {r \in WinregSet : ~r.importable}
    /\ proxy_mode_override \in {Absent, "no"}
    /\ custom_proxy_override = Absent
    /\ url \in UrlSet
    /\ use_browser \in BOOLEAN
    /\ store \in StoreSet
    /\ pc = "fetch"
    /\ outcome = Absent /\ html_content = Absent
    /\ static_response = NoResponse
    /\ fwb_caller = Absent /\ fwb_calls = 0 /\ is_twitter_article = FALSE
    /\ open_browsers = {}
    /\ xhs_state0 = NoSession /\ xhs_depth = 0 /\ login_caller = Absent
    /\ login_count = 0 /\ relogin_count = 0 /\ xhs_navs = 0 /\ redirects = 0
    /\ ctx_state = NoSession /\ nav_count = 0 /\ net_calls = {}
    /\ launched = 0 /\ expired = {}
    /\ IdleProxy
    /\ entry = Absent /\ args = Absent /\ data = Absent
    /\ po_pc = "idle" /\ lang_mode = Absent /\ mode_used = Absent
    /\ IdleExtract
    /\ IdleMatcher
    /\ IdleStore

\* the first statement of each handler
HandlerEntry(site) ==
    CASE site = "twitter"     -> "oembed_get"
      [] site = "wechat"      -> "wechat_launch"
      [] site = "xiaohongshu" -> "xhs_load_state"
      [] OTHER                -> "generic"

\* lines 263-268: look the handler up and call it
FetchDispatch ==
    /\ pc = "fetch"
    /\ pc' = HandlerEntry(get_handler_for_url(url))
    /\ UNCHANGED <<fetchIn, notFetch, expired, launched, outcome, html_content, static_response, fwbVars,
                   open_browsers, authVars, nav_count, net_calls>>

\* fetch returns html
Returns(h) == pc' = "done" /\ outcome' = "returned" /\ html_content' = h

\* an exception leaves fetch
Raises == pc' = "failed" /\ outcome' = "raised" /\ html_content' = Absent

\* the handler returned None (or ""): lines 269-270 fall through to line 272
HandlerGaveNothing == pc' = "generic" /\ UNCHANGED <<outcome, html_content>>

\* a call of fetch_with_browser from the call site `caller`
CallFetchWithBrowser(caller, article) ==
    /\ pc' = "fwb_launch"
    /\ fwb_caller' = caller
    /\ fwb_calls' = fwb_calls + 1
    /\ is_twitter_article' = article
    /\ UNCHANGED <<outcome, html_content>>

\* lines 276-303: the static GET, the heuristic, and the except clause
StaticGet ==
    /\ pc = "generic" /\ ~use_browser
    /\ \E resp \in ResponseSet :
        /\ static_response' = resp
        /\ IF resp.kind # "ok"
           THEN CallFetchWithBrowser("except", FALSE)
           ELSE IF IsLikelyDynamic(resp)
                THEN CallFetchWithBrowser("heuristic", FALSE)
                ELSE Returns("response.text") /\ UNCHANGED fwbVars
    /\ nav_count' = nav_count + 1
    /\ net_calls' = net_calls \cup {NetCall("requests.get", "_get_proxies", StdProxies)}
    /\ UNCHANGED <<fetchIn, notFetch, expired, launched, open_browsers, authVars>>

\* lines 304-307: use_browser
ForcedBrowser ==
    /\ pc = "generic" /\ use_browser
    /\ CallFetchWithBrowser("use_browser", FALSE)
    /\ UNCHANGED <<fetchIn, notFetch, expired, launched, static_response, open_browsers, authVars,
                   nav_count, net_calls>>

----------------------------------------------------------------------------
(* Fetcher.fetch_with_browser *)

\* where an exception raised by fetch_with_browser goes: from the call inside
\* the try of line 277 it is caught by line 299, whose handler calls
\* fetch_with_browser again; from every other call site it leaves fetch
FwbRaises ==
    IF fwb_caller = "heuristic"
    THEN CallFetchWithBrowser("except", FALSE)
    ELSE Raises /\ UNCHANGED fwbVars

FwbProxies == IF is_twitter_url(url) THEN ForcedProxies ELSE StdProxies
FwbResolver ==
    IF is_twitter_url(url) THEN "_get_twitter_forced_proxies" ELSE "_get_proxies"

Browser(owner) == [owner |-> owner, n |-> fwb_calls + login_count + xhs_depth]

\* the with block left without ending the browsers it launched
PlaywrightExit_Leak(owner) == open_browsers

\* an exception leaves `with sync_playwright() as p:` - the context manager's
\* exit stops the Playwright instance and with it the browsers launched from
\* it, whether or not browser.close() was reached: the browsers still open
PlaywrightExit(owner) == {b \in open_browsers : b.owner # owner}

\* lines 804-834: resolve the proxy, p.chromium.launch(**launch_args)
FwbLaunch ==
    /\ pc = "fwb_launch"
    /\ net_calls' = net_calls \cup {NetCall("chromium.launch", FwbResolver, FwbProxies)}
    /\ \/ /\ open_browsers' = open_browsers \cup {Browser("fetch_with_browser")}
          /\ launched' = launched + 1
          /\ pc' = "fwb_context"
          /\ UNCHANGED <<outcome, html_content, fwbVars>>
       \/ FwbRaises /\ UNCHANGED <<open_browsers, launched>>
    /\ UNCHANGED <<fetchIn, notFetch, expired, static_response, authVars, nav_count>>

\* line 837: _create_stealth_context, outside the try
FwbContext ==
    /\ pc = "fwb_context"
    /\ \/ pc' = "fwb_page" /\ UNCHANGED <<outcome, html_content, fwbVars, open_browsers>>
       \/ FwbRaises /\ open_browsers' = PlaywrightExit("fetch_with_browser")
    /\ UNCHANGED <<fetchIn, notFetch, expired, launched, static_response, authVars, nav_count, net_calls>>

\* line 838: context.new_page(), outside the try
FwbPage ==
    /\ pc = "fwb_page"
    /\ \/ pc' = "fwb_goto" /\ UNCHANGED <<outcome, html_content, fwbVars, open_browsers>>
       \/ FwbRaises /\ open_browsers' = PlaywrightExit("fetch_with_browser")
    /\ UNCHANGED <<fetchIn, notFetch, expired, launched, static_response, authVars, nav_count, net_calls>>

\* lines 840-865: goto, content, the cleaning of an article; finally closes
FwbGoto ==
    /\ pc = "fwb_goto"
    /\ nav_count' = nav_count + 1
    /\ open_browsers' = {b \in open_browsers : b.owner # "fetch_with_browser"}
    /\ \/ /\ Returns(IF is_twitter_url(url) /\ is_twitter_article
                     THEN "cleaned page.content()" ELSE "page.content()")
          /\ UNCHANGED fwbVars
       \/ FwbRaises
    /\ UNCHANGED <<fetchIn, notFetch, expired, launched, static_response, authVars, net_calls>>

----------------------------------------------------------------------------
(* Fetcher._fetch_twitter_oembed *)

\* lines 626-670
OembedGet ==
    /\ pc = "oembed_get"
    /\ net_calls' = net_calls \cup
           {NetCall("oembed", "_get_twitter_forced_proxies", ForcedProxies)}
    /\ \/ \* RequestException: the handler returns None
          HandlerGaveNothing /\ UNCHANGED fwbVars
       \/ \* a tweet
          Returns("oembed html") /\ UNCHANGED fwbVars
       \/ \* _is_twitter_article_only_link: fetch the article with the browser
          CallFetchWithBrowser("oembed", TRUE)
    /\ UNCHANGED <<fetchIn, notFetch, expired, launched, static_response, open_browsers, authVars,
                   nav_count>>

----------------------------------------------------------------------------
(* Fetcher._fetch_wechat_article *)

\* lines 678-686: launch, outside the try
WechatLaunch ==
    /\ pc = "wechat_launch"
    /\ net_calls' = net_calls \cup {NetCall("chromium.launch", "_get_proxies", StdProxies)}
    /\ \/ /\ open_browsers' = open_browsers \cup {Browser("_fetch_wechat_article")}
          /\ launched' = launched + 1
          /\ pc' = "wechat_context"
          /\ UNCHANGED <<outcome, html_content>>
       \/ Raises /\ UNCHANGED <<open_browsers, launched>>
    /\ UNCHANGED <<fetchIn, notFetch, expired, static_response, fwbVars, authVars, nav_count>>

\* lines 687-690: new_context and new_page, outside the try
WechatContext ==
    /\ pc = "wechat_context"
    /\ \/ pc' = "wechat_goto" /\ UNCHANGED <<outcome, html_content, open_browsers>>
       \/ Raises /\ open_browsers' = PlaywrightExit("_fetch_wechat_article")
    /\ UNCHANGED <<fetchIn, notFetch, expired, launched, static_response, fwbVars, authVars, nav_count,
                   net_calls>>

\* lines 691-727: goto and the evaluations; finally closes the browser
WechatGoto ==
    /\ pc = "wechat_goto"
    /\ nav_count' = nav_count + 1
    /\ open_browsers' = {b \in open_browsers : b.owner # "_fetch_wechat_article"}
    /\ \/ Returns("wechat article")
       \/ \* an exception (caught, None) or an empty content (html_content None)
          HandlerGaveNothing
    /\ UNCHANGED <<fetchIn, notFetch, expired, launched, static_response, fwbVars, authVars, net_calls>>


----------------------------------------------------------------------------
(* AuthHandler: the session file of a site *)

\* load_state: the parsed state, None when the file is missing or unreadable
load_state(file) == IF file.kind = "session" THEN file ELSE NoSession

\* line 883 with the test dropped: the handler never logs in first
NoState_Never(state) == FALSE

\* `if not state`
NoState(state) == state.kind # "session"

\* the k-th interactive login's storage state
Session(k) == [kind |-> "session", id |-> k]

\* the number of nested frames of _fetch_xiaohongshu the interpreter's stack
\* holds (sys.getrecursionlimit(), scaled down): a call beyond it raises
\* RecursionError
MaxDepth == 2

----------------------------------------------------------------------------
(* AuthHandler.interactive_login, called by _fetch_xiaohongshu *)

\* a call of interactive_login from the call site `caller`
CallInteractiveLogin(caller) ==
    /\ pc' = "login_launch"
    /\ login_caller' = caller
    /\ login_count' = login_count + 1
    /\ relogin_count' = IF caller = "relogin" THEN relogin_count + 1 ELSE relogin_count

\* an exception that leaves the frame of _fetch_xiaohongshu outside its try: from
\* the outermost frame it leaves fetch; from a recursive frame it is caught by the
\* except of the calling frame (line 1002), which returns None
XhsFrameRaises ==
    IF xhs_depth = 0 THEN Raises ELSE HandlerGaveNothing

\* an exception that leaves interactive_login: the call of line 920 is inside
\* the try, the call of line 885 is not
LoginRaises ==
    IF login_caller = "relogin" THEN HandlerGaveNothing ELSE XhsFrameRaises

\* interactive_login returns False: lines 889-891 and line 929 return None
LoginFailed == HandlerGaveNothing /\ UNCHANGED xhs_depth

\* interactive_login returns True: line 892 goes on to the launch, line 926
\* calls _fetch_xiaohongshu again; on a full stack the call raises
\* RecursionError inside the try of line 910, and line 1002 returns None
LoginSucceeded ==
    IF login_caller = "relogin"
    THEN IF xhs_depth < MaxDepth
         THEN /\ xhs_depth' = xhs_depth + 1
              /\ pc' = "xhs_load_state"
              /\ UNCHANGED <<outcome, html_content>>
         ELSE HandlerGaveNothing /\ UNCHANGED xhs_depth
    ELSE /\ pc' = "xhs_launch"
         /\ UNCHANGED <<xhs_depth, outcome, html_content>>

\* lines 2138-2156: launch of the visible browser, outside the try
LoginLaunch ==
    /\ pc = "login_launch"
    /\ net_calls' = net_calls \cup {NetCall("login launch", "_get_proxies", StdProxies)}
    /\ \/ /\ open_browsers' = open_browsers \cup {Browser("interactive_login")}
          /\ launched' = launched + 1
          /\ pc' = "login_context"
          /\ UNCHANGED <<outcome, html_content>>
       \/ LoginRaises /\ UNCHANGED <<open_browsers, launched>>
    /\ UNCHANGED <<fetchIn, notFetch, expired, static_response, fwbVars, authVars, nav_count>>

\* lines 2157-2161: new_context and new_page, outside the try
LoginContext ==
    /\ pc = "login_context"
    /\ \/ pc' = "login_goto" /\ UNCHANGED <<outcome, html_content, open_browsers>>
       \/ LoginRaises /\ open_browsers' = PlaywrightExit("interactive_login")
    /\ UNCHANGED <<fetchIn, notFetch, expired, launched, static_response, fwbVars, authVars, nav_count,
                   net_calls>>

CloseLoginBrowser ==
    open_browsers' = {b \in open_browsers : b.owner # "interactive_login"}

\* line 2164: page.goto(login_url); an exception is caught and gives False
LoginGoto ==
    /\ pc = "login_goto"
    /\ \/ /\ pc' = "login_input"
          /\ UNCHANGED <<outcome, html_content, open_browsers>>
       \/ LoginFailed /\ CloseLoginBrowser
    /\ UNCHANGED <<fetchIn, notFetch, expired, launched, static_response, fwbVars, store, xhs_state0,
                   xhs_depth, login_caller, login_count, relogin_count, xhs_navs,
                   redirects, ctx_state, nav_count, net_calls>>

\* line 2166 with a user who never answers: input(...) does not return
LoginInput_Blocks ==
    /\ pc = "login_input"
    /\ UNCHANGED vars

\* line 2166: input(...) blocks until the user answers; EOF gives False
LoginInput ==
    /\ pc = "login_input"
    /\ \/ /\ pc' = "login_save"
          /\ UNCHANGED <<outcome, html_content, open_browsers>>
       \/ LoginFailed /\ CloseLoginBrowser
    /\ UNCHANGED <<fetchIn, notFetch, expired, launched, static_response, fwbVars, store, xhs_state0,
                   xhs_depth, login_caller, login_count, relogin_count, xhs_navs,
                   redirects, ctx_state, nav_count, net_calls>>

\* save_state: the file after the write; an error while writing is logged and
\* swallowed, and leaves the old file, or a truncated one
SaveStateResults(file, state) ==
    {state, file, [kind |-> "corrupt", id |-> 0]}

\* lines 2169-2178: storage_state, save_state, return True; finally closes
LoginSave ==
    /\ pc = "login_save"
    /\ CloseLoginBrowser
    /\ \/ \E file \in SaveStateResults(store, Session(login_count)) :
             store' = file /\ LoginSucceeded
       \/ \* context.storage_state() raises
          LoginFailed /\ UNCHANGED store
    /\ UNCHANGED <<fetchIn, notFetch, expired, launched, static_response, fwbVars, xhs_state0,
                   login_caller, login_count, relogin_count, xhs_navs, redirects,
                   ctx_state, nav_count, net_calls>>

----------------------------------------------------------------------------
(* Fetcher._fetch_xiaohongshu *)

\* lines 877-892: load the saved state, log in when there is none
XhsLoadState ==
    /\ pc = "xhs_load_state"
    /\ xhs_state0' = IF xhs_depth = 0 THEN load_state(store) ELSE xhs_state0
    /\ IF NoState(load_state(store))
       THEN CallInteractiveLogin("precheck")
       ELSE /\ pc' = "xhs_launch"
            /\ UNCHANGED <<login_caller, login_count, relogin_count>>
    /\ UNCHANGED <<fetchIn, notFetch, expired, launched, outcome, html_content, static_response, fwbVars,
                   open_browsers, store, xhs_depth, xhs_navs, redirects, ctx_state,
                   nav_count, net_calls>>

\* lines 894-899: launch, outside the try
XhsLaunch ==
    /\ pc = "xhs_launch"
    /\ net_calls' = net_calls \cup {NetCall("chromium.launch", "_get_proxies", StdProxies)}
    /\ \/ /\ open_browsers' = open_browsers \cup {Browser("_fetch_xiaohongshu")}
          /\ launched' = launched + 1
          /\ pc' = "xhs_context"
          /\ UNCHANGED <<outcome, html_content>>
       \/ XhsFrameRaises /\ UNCHANGED <<open_browsers, launched>>
    /\ UNCHANGED <<fetchIn, notFetch, expired, static_response, fwbVars, authVars, nav_count>>

\* lines 902-908: create_context_with_auth loads the state again; new_context and
\* new_page are outside the try
XhsContext ==
    /\ pc = "xhs_context"
    /\ ctx_state' = load_state(store)
    /\ \/ pc' = "xhs_goto" /\ UNCHANGED <<outcome, html_content, open_browsers>>
       \/ XhsFrameRaises /\ open_browsers' = PlaywrightExit("_fetch_xiaohongshu")
    /\ UNCHANGED <<fetchIn, notFetch, expired, launched, static_response, fwbVars, store,
                   xhs_state0, xhs_depth, login_caller, login_count, relogin_count,
                   xhs_navs, redirects, nav_count, net_calls>>

\* lines 910-1006: goto, the login-URL test, the evaluations; the except returns
\* None and finally closes the browser
XhsGoto ==
    /\ pc = "xhs_goto"
    /\ xhs_navs' = xhs_navs + 1
    /\ nav_count' = nav_count + 1
    /\ open_browsers' = {b \in open_browsers : b.owner # "_fetch_xiaohongshu"}
    /\ \/ \* the page is the note
          /\ Returns("xiaohongshu note")
          /\ UNCHANGED <<redirects, login_caller, login_count, relogin_count, expired>>
       \/ \* goto or an evaluation raises
          /\ HandlerGaveNothing
          /\ UNCHANGED <<redirects, login_caller, login_count, relogin_count, expired>>
       \/ \* "/login" in page.url: close the browser and log in again
          /\ redirects' = redirects + 1
          /\ expired' = expired \cup {ctx_state}
          /\ CallInteractiveLogin("relogin")
          /\ UNCHANGED <<outcome, html_content>>
    /\ UNCHANGED <<fetchIn, notFetch, launched, static_response, fwbVars, store, xhs_state0,
                   xhs_depth, ctx_state, net_calls>>

----------------------------------------------------------------------------

Next ==
    \/ FetchDispatch \/ StaticGet \/ ForcedBrowser
    \/ FwbLaunch \/ FwbContext \/ FwbPage \/ FwbGoto
    \/ OembedGet
    \/ WechatLaunch \/ WechatContext \/ WechatGoto
    \/ XhsLoadState \/ XhsLaunch \/ XhsContext \/ XhsGoto
    \/ LoginLaunch \/ LoginContext \/ LoginGoto \/ LoginInput \/ LoginSave

Spec == Init /\ [][Next]_vars

\* Fetcher.fetch runs on one thread and every call it makes returns or raises
\* within its timeout: a fetch that can take a step takes one.  The proxy
\* settings do not decide any branch of fetch; one setting is drawn.
InitLive ==
    /\ Init
    /\ config.proxy_mode = Absent
    /\ environ.http_proxy = Absent
    /\ proxy_mode_override = Absent

LiveSpec == InitLive /\ [][Next]_vars /\ WF_vars(Next)

----------------------------------------------------------------------------
(* BeautifulSoup trees.                                                    *)
(* A soup is a sequence of nodes in document order.  A node's parent is    *)
(* the index of its parent, 0 for a child of the BeautifulSoup object, or  *)
(* Detached for an element that was taken out of the tree (its own         *)
(* children keep pointing at it).  A text node carries its string as a run *)
(* [c, n]: the character c repeated n times.                               *)

Detached == 0 - 1

LazyAttrs == <<"data-src", "data-original", "data-url", "data-srcset", "srcset">>

AttrNames == {"id", "src"} \cup {LazyAttrs[k] : k \in 1..Len(LazyAttrs)}

NoAttrs == [a \in AttrNames |-> Absent]

NoText == [c |-> "", n |-> 0]

Node(name, parent, attrs, txt) ==
    [name |-> name, parent |-> parent, attrs |-> attrs, txt |-> txt]

El(name, parent) == Node(name, parent, NoAttrs, NoText)

ElId(name, parent, id) == Node(name, parent, [NoAttrs EXCEPT !["id"] = id], NoText)

Text(parent, c, n) == Node("#text", parent, NoAttrs, [c |-> c, n |-> n])

\* tag.name, "[document]" for the BeautifulSoup object
NameOf(soup, i) == IF i = 0 THEN "[document]" ELSE soup[i].name

\* tag.get("id"), None for the BeautifulSoup object
IdOf(soup, i) == IF i = 0 THEN Absent ELSE soup[i].attrs["id"]

\* tag.parent, Detached standing for None
ParentOf(soup, i) == IF i = 0 THEN Detached ELSE soup[i].parent

\* the proper ancestors of node i, up to the BeautifulSoup object when the
\* node is in its tree
RECURSIVE Ancestors(_, _)
Ancestors(soup, i) ==
    IF ParentOf(soup, i) = Detached THEN {}
    ELSE {ParentOf(soup, i)} \cup Ancestors(soup, ParentOf(soup, i))

\* tag.descendants
Descendants(soup, a) == {i \in 1..Len(soup) : a \in Ancestors(soup, i)}

\* tag.find_all(names), as the set of indices; document order is index order
find_all(soup, a, names) == {i \in Descendants(soup, a) : soup[i].name \in names}

MinOf(S) == CHOOSE x \in S : \A y \in S : x <= y

\* tag.find(name): the first match, 0 for None
find(soup, a, names) ==
    IF find_all(soup, a, names) = {} THEN 0 ELSE MinOf(find_all(soup, a, names))

----------------------------------------------------------------------------
(* Strings of text nodes, as sequences of runs *)

\* s + t
RECURSIVE Concat(_, _)
Concat(s, t) ==
    IF t = <<>> THEN s
    ELSE IF t[1].n = 0 THEN Concat(s, Tail(t))
    ELSE IF s # <<>> /\ s[Len(s)].c = t[1].c
         THEN Concat([s EXCEPT ![Len(s)].n = @ + t[1].n], Tail(t))
         ELSE Concat(Append(s, t[1]), Tail(t))

\* len(s)
RECURSIVE StrLen(_)
StrLen(s) == IF s = <<>> THEN 0 ELSE s[1].n + StrLen(Tail(s))

\* s[:k]
RECURSIVE Prefix(_, _)
Prefix(s, k) ==
    IF s = <<>> \/ k <= 0 THEN <<>>
    ELSE IF s[1].n >= k THEN <<[c |-> s[1].c, n |-> k]>>
    ELSE <<s[1]>> \o Prefix(Tail(s), k - s[1].n)

\* fingerprint in t, for the string t of one text node
Contains(t, fingerprint) ==
    \/ fingerprint = <<>>
    \/ Len(fingerprint) = 1 /\ fingerprint[1].c = t.c /\ fingerprint[1].n <= t.n

\* tag.get_text(strip=True): the strings of the text nodes below a, joined
RECURSIVE JoinText(_, _)
JoinText(soup, nodes) ==
    IF nodes = {} THEN <<>>
    ELSE Concat(<<soup[MinOf(nodes)].txt>>, JoinText(soup, nodes \ {MinOf(nodes)}))

get_text(soup, a) == JoinText(soup, find_all(soup, a, {"#text"}))

\* tag.find(string=lambda t: fingerprint in t): the first text node, 0 for None
find_string(soup, a, fingerprint) ==
    LET hits == {i \in find_all(soup, a, {"#text"}) : Contains(soup[i].txt, fingerprint)}
    IN  IF hits = {} THEN 0 ELSE MinOf(hits)

----------------------------------------------------------------------------
(* ContentProcessor._preprocess_html *)

\* val.split(",")[0].split(" ")[0] on the attribute values the model draws
FirstToken(val) ==
    CASE val = "a.jpg 1x, b.jpg 2x"       -> "a.jpg"
      [] val = "c.jpg 1x, d.jpg 2x"       -> "c.jpg"
      [] val = " lead.jpg"                -> ""
      [] val = "data:image/gif;base64,R0" -> "data:image/gif;base64"
      [] OTHER                            -> val

\* src.startswith("data:image")
IsDataImage(src) == src \in {"data:image/gif;base64,R0", "data:image/gif;base64"}

\* f"https:{val}" if val.startswith("//")
WithScheme(val) == IF val = "//cdn/x.jpg" THEN "https://cdn/x.jpg" ELSE val

\* lines 1097-1111: the first lazy attribute, from position k on, that has a
\* value gives the src, whatever its first token is
RECURSIVE AdoptedSrc(_, _)
AdoptedSrc(attrs, k) ==
    IF k > Len(LazyAttrs) THEN attrs["src"]
    ELSE IF Falsy(attrs[LazyAttrs[k]]) THEN AdoptedSrc(attrs, k + 1)
    ELSE WithScheme(FirstToken(attrs[LazyAttrs[k]]))

\* lines 1092-1111
NormalizedSrc(attrs) ==
    IF Falsy(attrs["src"]) \/ IsDataImage(attrs["src"])
    THEN AdoptedSrc(attrs, 1)
    ELSE attrs["src"]

\* parent.replace_with(img): img takes the place of its parent, which leaves
\* the tree together with the rest of its content
ReplaceWith(soup, parent, img) ==
    [soup EXCEPT ![img].parent = soup[parent].parent, ![parent].parent = Detached]

\* lines 1114-1121: the while loop of one img; replace_with on an element that
\* has no parent raises ValueError
RECURSIVE Flatten(_, _)
Flatten(soup, img) ==
    LET parent == soup[img].parent
    IN  IF parent <= 0 THEN [raised |-> FALSE, soup |-> soup]
        ELSE IF soup[parent].name \in {"picture", "source"}
        THEN IF soup[parent].parent = Detached
             THEN [raised |-> TRUE, soup |-> soup]
             ELSE Flatten(ReplaceWith(soup, parent, img), img)
        ELSE [raised |-> FALSE, soup |-> soup]

\* lines 1090-1121: the for loop over the list soup.find_all("img") made before
\* the first iteration
RECURSIVE PreprocessImgs(_, _)
PreprocessImgs(soup, imgs) ==
    IF imgs = {} THEN [raised |-> FALSE, soup |-> soup]
    ELSE LET img == MinOf(imgs)
             normalized == [soup EXCEPT ![img].attrs["src"] = NormalizedSrc(soup[img].attrs)]
             flat == Flatten(normalized, img)
         IN  IF flat.raised THEN flat ELSE PreprocessImgs(flat.soup, imgs \ {img})

\* _preprocess_html(html): the soup returned, or raised
preprocess_html(dom) == PreprocessImgs(dom, find_all(dom, 0, {"img"}))

----------------------------------------------------------------------------
(* ContentProcessor._rescue_content.                                       *)
(* Readability's summary is the content of one element `top` of the        *)
(* document it was given: its text and its images are those below top.     *)

MinSummaryText == 50

FingerprintLen == 100

ShortFingerprintLen == 30

\* summary_soup.get_text(strip=True)
SummaryText(soup, top) == get_text(soup, top)

\* the images of the summary
SummaryImgs(soup, top) == find_all(soup, top, {"img"})

\* line 1132 without the test: rescue goes on whatever the length of the text
SummaryTooShort_Never(text) == FALSE

\* line 1132: len(text) < 50
SummaryTooShort(text) == StrLen(text) < MinSummaryText

\* container.get("id") and container.get("id").lower() in [...]
IdIn(soup, i, ids) == ~Falsy(IdOf(soup, i)) /\ Lower(IdOf(soup, i)) \in ids

\* lines 1148-1160: the first container, in document order, that is not skipped
\* and holds a matching string gives the node
FirstInContainers(soup, containers, fingerprint) ==
    LET hits == {c \in containers : find_string(soup, c, fingerprint) # 0}
    IN  IF hits = {} THEN 0 ELSE find_string(soup, MinOf(hits), fingerprint)

\* lines 1139-1160: the search with the 100-character fingerprint
SearchLong(soup, fingerprint) ==
    LET body == find(soup, 0, {"body"})
        inBody == IF body # 0 THEN find_string(soup, body, fingerprint) ELSE 0
        containers == {c \in find_all(soup, 0, {"article", "main", "section", "div"}) :
                          ~IdIn(soup, c, {"content", "main", "article", "body"})}
    IN  IF inBody # 0 THEN inBody ELSE FirstInContainers(soup, containers, fingerprint)

\* lines 1163-1180: the search with the 30-character fingerprint
SearchShort(soup, fingerprint) ==
    LET body == find(soup, 0, {"body"})
        inBody == IF body # 0 THEN find_string(soup, body, fingerprint) ELSE 0
        containers == find_all(soup, 0, {"article", "main", "section"})
    IN  IF inBody # 0 THEN inBody ELSE FirstInContainers(soup, containers, fingerprint)

\* lines 1136-1180: the text node rescue settles on, 0 for None
RescueNode(soup, text) ==
    IF SearchLong(soup, Prefix(text, FingerprintLen)) # 0
    THEN SearchLong(soup, Prefix(text, FingerprintLen))
    ELSE SearchShort(soup, Prefix(text, ShortFingerprintLen))

\* lines 1190-1202: the walk from curr upwards
RECURSIVE Climb(_, _, _)
Climb(soup, curr, best_candidate) ==
    IF curr = Detached \/ NameOf(soup, curr) \in {"body", "html"} THEN best_candidate
    ELSE IF NameOf(soup, curr) \in {"article", "main"}
            \/ IdIn(soup, curr, {"main", "content", "article"})
         THEN curr
         ELSE Climb(soup, ParentOf(soup, curr),
                    IF find_all(soup, curr, {"img"}) # {} THEN curr ELSE best_candidate)

\* lines 1186-1187 alone: the walk never moves the candidate
BestCandidate_Parent(soup, node) == soup[node].parent

\* lines 1186-1202
BestCandidate(soup, node) == Climb(soup, soup[node].parent, soup[node].parent)

\* what _rescue_content returns: summary_html itself, or str(best_candidate)
SummaryHtml(top) == [kind |-> "summary_html", node |-> top]
ContainerHtml(i) == [kind |-> "str(best_candidate)", node |-> i]

----------------------------------------------------------------------------
(* The documents extract_content is given.                                 *)
(* A family is a fixed skeleton of nodes; a node the document does not     *)
(* have is left out of the tree (parent Detached from the start).          *)

In(present, parent) == IF present THEN parent ELSE Detached

Img(parent, attrs) == Node("img", parent, attrs, NoText)

\* <html><head><title>T</title></head><body>
\*   <outer id=..><p>text <img></p><img></outer> <img> <p>text2</p>
\* </body></html>, or the same without html, head and body
ArticleDoc(hasBody, dupTitle, outerName, outerId, len1, inP, inOuter, inBody, c2) ==
    LET B == IF hasBody THEN 5 ELSE 0
    IN  << El("html", In(hasBody, 0)),
           El("head", 1),
           El("title", In(dupTitle /\ hasBody, 2)),
           Text(3, "a", len1),
           El("body", 1),
           ElId(outerName, B, outerId),
           El("p", 6),
           Text(7, "a", len1),
           Img(In(inP, 7), [NoAttrs EXCEPT !["src"] = "real.jpg"]),
           Img(In(inOuter, 6), [NoAttrs EXCEPT !["src"] = "real.jpg"]),
           Img(In(inBody, B), [NoAttrs EXCEPT !["src"] = "real.jpg"]),
           El("p", In(c2 # "", B)),
           Text(12, c2, 120) >>

TextLens == {40, 60, 120}

ArticleDocs ==
    { ArticleDoc(hasBody, dupTitle, outerName, outerId, len1, inP, inOuter, inBody, c2) :
        hasBody \in BOOLEAN, dupTitle \in BOOLEAN,
        outerName \in {"div", "article", "section"}, outerId \in {Absent, "content"},
        len1 \in TextLens, inP \in BOOLEAN, inOuter \in BOOLEAN, inBody \in BOOLEAN,
        c2 \in {"", "a", "b"} }

ImgAttrs ==
    { [NoAttrs EXCEPT !["src"] = src, !["data-src"] = ds, !["srcset"] = ss] :
        src \in {Absent, "", "data:image/gif;base64,R0", "real.jpg"},
        ds \in {Absent, "//cdn/x.jpg", " lead.jpg"},
        ss \in {Absent, "c.jpg 1x, d.jpg 2x"} }

\* <div><figure><picture><source srcset=..><img ..><img></picture></figure>
\* <p>text</p></div>, with or without the figure, the picture, the second img
PictureDoc(hasFigure, hasPicture, sourceSet, attrs, second) ==
    LET F == IF hasFigure THEN 2 ELSE 1
        P == IF hasPicture THEN 3 ELSE F
    IN  << El("div", 0),
           El("figure", In(hasFigure, 1)),
           El("picture", In(hasPicture, F)),
           Node("source", In(sourceSet # Absent, 3),
                [NoAttrs EXCEPT !["srcset"] = sourceSet], NoText),
           Img(P, attrs),
           Img(In(second, P), [NoAttrs EXCEPT !["src"] = "real.jpg"]),
           El("p", 1),
           Text(7, "a", 120) >>

PictureDocs ==
    { PictureDoc(hasFigure, hasPicture, sourceSet, attrs, second) :
        hasFigure \in BOOLEAN, hasPicture \in BOOLEAN,
        sourceSet \in {Absent, "a.jpg 1x, b.jpg 2x"},
        attrs \in ImgAttrs, second \in BOOLEAN }

\* <div><picture><img><figure><img></figure></picture><p>text</p></div>: the
\* figure inside the picture, with or without an img beside it
WrappedDoc(beside) ==
    << El("div", 0),
       El("picture", 1),
       Img(In(beside, 2), [NoAttrs EXCEPT !["src"] = "real.jpg"]),
       El("figure", 2),
       Img(4, [NoAttrs EXCEPT !["src"] = "real.jpg"]),
       El("p", 1),
       Text(6, "a", 120) >>

WrappedDocs == { WrappedDoc(beside) : beside \in BOOLEAN }

\* <outer id=..><p>text</p><p>text2</p><img></outer>: a fragment without
\* html and body whose text is spread over two elements
FragmentDoc(outerName, outerId, len1) ==
    << ElId(outerName, 0, outerId),
       El("p", 1),
       Text(2, "a", len1),
       El("p", 1),
       Text(4, "b", 120),
       Img(1, [NoAttrs EXCEPT !["src"] = "real.jpg"]) >>

FragmentDocs ==
    { FragmentDoc(outerName, outerId, len1) :
        outerName \in {"div", "section"}, outerId \in {Absent, "content"},
        len1 \in TextLens }

DocSet == ArticleDocs \cup PictureDocs \cup WrappedDocs \cup FragmentDocs

\* the elements Readability's summary can be the content of
TopSet(soup) == find_all(soup, 0, {"body", "div", "article", "section", "p"})

----------------------------------------------------------------------------
(* ContentProcessor.extract_content.                                       *)
(* The argument html is the parsed document together with what the two     *)
(* extraction engines, which are functions of their input, do on it:       *)
(*   dom       : BeautifulSoup(html, "html.parser")                        *)
(*   pre_title : Document(str(soup)).title()   "ok" | "raise"              *)
(*   summary   : Document(str(soup)).summary() "ok" | "raise"              *)
(*   top       : the element of the soup whose content the summary is      *)
(*   secondary : trafilatura.extract(...)                                  *)
(*               "html" | "empty" | "none" | "raise"                       *)
(*   raw_title : Document(html).title()        "ok" | "raise"              *)

EngineSet ==
    [pre_title : {"ok", "raise"}, secondary : {"html", "none", "raise"},
     raw_title : {"ok", "raise"}]
    \cup [pre_title : {"ok"}, secondary : {"empty"}, raw_title : {"ok"}]

HtmlOf(dom, summary, top, e) ==
    [dom |-> dom, summary |-> summary, top |-> top, pre_title |-> e.pre_title,
     secondary |-> e.secondary, raw_title |-> e.raw_title]

\* what Document(str(soup)).summary() can do on the document dom
SummarySet(dom) ==
    {[summary |-> "raise", top |-> 0]}
    \cup {[summary |-> "ok", top |-> top] :
             top \in IF preprocess_html(dom).raised THEN {}
                     ELSE TopSet(preprocess_html(dom).soup)}

\* line 1213: whether _preprocess_html(html) raises
PreprocessRaises(doc) == preprocess_html(doc.dom).raised

\* _rescue_content(preprocessed_soup, summary_html)
rescue_content(soup, top) ==
    IF SummaryTooShort(SummaryText(soup, top)) THEN SummaryHtml(top)
    ELSE IF RescueNode(soup, SummaryText(soup, top)) = 0 THEN SummaryHtml(top)
    ELSE ContainerHtml(BestCandidate(soup, RescueNode(soup, SummaryText(soup, top))))

NoContent == [kind |-> Absent, node |-> 0]

InitExtract ==
    /\ \E dom \in DocSet, e \in EngineSet :
          \E s \in SummarySet(dom) : html = HtmlOf(dom, s.summary, s.top, e)
    /\ ex_pc = "preprocess"
    /\ preprocessed_soup = <<>>
    /\ ex_outcome = Absent /\ title = Absent /\ content = NoContent /\ tiers = <<>>
    /\ config = CHOOSE c \in FetchConfigSet : TRUE
    /\ environ = CHOOSE e \in FetchEnvironSet : TRUE
    /\ winreg = CHOOSE r \in WinregSet : ~r.importable
    /\ proxy_mode_override = Absent /\ custom_proxy_override = Absent
    /\ IdleProxy /\ IdlePolicy /\ IdleFetch /\ IdleMatcher /\ IdleStore

notExtract == <<sharedVars, proxyVars, policyVars, fetchVars, matcherVars, storeVars, html>>

ExtractReturns(t, c) ==
    ex_pc' = "done" /\ ex_outcome' = "returned" /\ title' = t /\ content' = c

ExtractRaises ==
    ex_pc' = "done" /\ ex_outcome' = "raised" /\ UNCHANGED <<title, content>>

\* line 1213: _preprocess_html(html), outside every try
Preprocess ==
    /\ ex_pc = "preprocess"
    /\ IF PreprocessRaises(html)
       THEN ExtractRaises /\ UNCHANGED preprocessed_soup
       ELSE /\ ex_pc' = "primary"
            /\ preprocessed_soup' = preprocess_html(html.dom).soup
            /\ UNCHANGED <<ex_outcome, title, content>>
    /\ UNCHANGED <<notExtract, tiers>>

\* lines 1216-1241: Readability's title and summary, then the rescue; any
\* exception goes on to Trafilatura
PrimaryTier ==
    /\ ex_pc = "primary"
    /\ tiers' = Append(tiers, "primary")
    /\ IF html.pre_title = "ok" /\ html.summary = "ok"
       THEN ExtractReturns("doc.title()", rescue_content(preprocessed_soup, html.top))
       ELSE ex_pc' = "secondary" /\ UNCHANGED <<ex_outcome, title, content>>
    /\ UNCHANGED <<notExtract, preprocessed_soup>>

\* the secondary tier with its result thrown away
SecondarySucceeds_Never(doc) == FALSE

\* lines 1245-1254: trafilatura.extract returned a non-empty string and
\* Document(html).title() a title
SecondarySucceeds(doc) == doc.secondary = "html" /\ doc.raw_title = "ok"

\* lines 1244-1256: trafilatura.extract, and Document(html).title() inside the try
SecondaryTier ==
    /\ ex_pc = "secondary"
    /\ tiers' = Append(tiers, "secondary")
    /\ IF SecondarySucceeds(html)
       THEN ExtractReturns("Document(html).title()", [kind |-> "content_html", node |-> 0])
       ELSE ex_pc' = "raw" /\ UNCHANGED <<ex_outcome, title, content>>
    /\ UNCHANGED <<notExtract, preprocessed_soup>>

\* lines 1258-1259: return Document(html).title(), html - outside every try
RawTier ==
    /\ ex_pc = "raw"
    /\ tiers' = Append(tiers, "raw")
    /\ IF html.raw_title = "ok"
       THEN ExtractReturns("Document(html).title()", [kind |-> "html", node |-> 0])
       ELSE ExtractRaises
    /\ UNCHANGED <<notExtract, preprocessed_soup>>

NextExtract == Preprocess \/ PrimaryTier \/ SecondaryTier \/ RawTier

SpecExtract == InitExtract /\ [][NextExtract]_vars

----------------------------------------------------------------------------
(* Claims on extract_content (SpecExtract)                                 *)

----------------------------------------------------------------------------
(* Claims on Fetcher.fetch (Spec)                                          *)

\* C2: within one fetch, fetch_with_browser is attempted at most once; an error it
\* raises is never followed by a second browser attempt.
C2_BrowserAttemptedAtMostOnce == fwb_calls <= 1

\* C3: one fetch of an authenticated site performs at most one expiry-triggered
\* re-login and at most two navigations to the target URL.
C3_AtMostOneRelogin == relogin_count <= 1 /\ xhs_navs <= 2

IsXhsFetch == url \in UrlSet /\ get_handler_for_url(url) = "xiaohongshu"

\* C4: a fetch of an authenticated site that finds no saved session has called
\* interactive_login before it launches the browser and navigates to the target
\* URL; one that finds a saved session and is never redirected to a login URL
\* never calls interactive_login.
C4_LoginBeforeNavigation ==
    IsXhsFetch =>
        /\ (xhs_state0.kind # "session"
            /\ (nav_count >= 1 \/ pc \in {"xhs_launch", "xhs_context", "xhs_goto"}))
              => login_count >= 1
        /\ (xhs_state0.kind = "session" /\ redirects = 0) => login_count = 0

C4_Witness ==
    /\ IsXhsFetch /\ store = Session(1) /\ xhs_state0 = NoSession
    /\ login_count = 1 /\ xhs_navs = 1 /\ redirects = 0
    /\ outcome = "returned" /\ html_content = "xiaohongshu note"

\* C5: after a static GET, the body is returned without a call of
\* fetch_with_browser exactly when the GET succeeded with a body of at least 1000
\* characters and no <noscript>; a shorter body, a <noscript> marker, a network
\* failure or a non-2xx status each lead to fetch_with_browser.
C5_DynamicHeuristic ==
    static_response.kind # "none" =>
        IF /\ static_response.kind = "ok"
           /\ static_response.len >= 1000
           /\ ~static_response.noscript
        THEN /\ pc = "done" /\ outcome = "returned"
             /\ html_content = "response.text" /\ fwb_calls = 0
        ELSE fwb_calls >= 1 /\ html_content # "response.text"

C5_Witness ==
    /\ static_response.kind = "ok" /\ static_response.noscript
    /\ static_response.len > 1000
    /\ fwb_calls = 1 /\ outcome = "returned" /\ html_content = "page.content()"

----------------------------------------------------------------------------
(* Claims on the entry points' policy (SpecPolicy)                         *)

\* the proxy mode the caller supplied explicitly, Absent when none
ExplicitProxyMode ==
    IF entry = "cli" THEN MainProxyMode(args) ELSE WebProxyMode(data)

\* the language mode given on the command line, Absent when none
ExplicitLangMode ==
    IF args.lang # Absent THEN args.lang
    ELSE IF args.r THEN "raw"
    ELSE IF args.b THEN "both"
    ELSE Absent

\* C6: for a URL matching a site rule with default_no_proxy, the mode the fetch
\* resolves its proxies with is "no" when the caller gave no explicit proxy
\* override, and the override when the caller gave one; for main and process_url.
C6_SiteDefaultNoProxy ==
    (po_pc = "fetching" /\ SiteFlag(get_handler_for_url(url), "default_no_proxy"))
        => IF ExplicitProxyMode = Absent
           THEN mode_used = "no"
           ELSE mode_used = ExplicitProxyMode

\* C7: for a URL matching a site rule with default_no_translate, a language mode
\* given explicitly (an explicit trans included) is the mode used, and the rule's
\* raw applies only when none was given.
C7_ExplicitLangWins ==
    (entry = "cli" /\ po_pc \in {"fetch", "fetching"}
     /\ SiteFlag(get_handler_for_url(url), "default_no_translate"))
        => IF ExplicitLangMode = Absent
           THEN lang_mode = "raw"
           ELSE lang_mode = ExplicitLangMode

----------------------------------------------------------------------------
(* Claims on proxy resolution (SpecProxy)                                  *)

\* the mode string the resolver is given: the override, else the INI's
ModeGiven ==
    IF ~Falsy(proxy_mode_override) THEN proxy_mode_override
    ELSE IF config.proxy_mode = Absent THEN "auto" ELSE config.proxy_mode

\* the custom proxy URL configured: the override, else the INI's
ConfiguredURL ==
    IF ~Falsy(custom_proxy_override) THEN custom_proxy_override
    ELSE config.custom_proxy

GetProxiesReturned == px_pc = "returned" /\ px_fn = "_get_proxies"
ForcedReturned == px_pc = "returned" /\ px_fn = "_get_twitter_forced_proxies"
ReturnedNull == req_proxies = NoneReq /\ pw_proxy = NonePw

C9_CustomModePointsAtURL ==
    (GetProxiesReturned /\ ModeGiven \in {"custom", "set"} /\ ~Falsy(ConfiguredURL))
        => /\ req_proxies = ReqDict(ConfiguredURL, ConfiguredURL)
           /\ ~pw_proxy.isNone /\ pw_proxy.server = ConfiguredURL

\* the registry holds a proxy setting the forced resolver can read
SystemProxyPresent ==
    winreg.importable /\ winreg.readable /\ winreg.enable /\ winreg.server # <<>>

\* C10: the forced resolver lets an explicit override decide, even with proxy
\* environment variables set: no gives (None, None), a custom URL gives that URL,
\* system gives the registry's proxies; and with no override, no environment
\* proxy, no system proxy and no configured proxy it returns (None, None).
C10_ExplicitOverrideDecides ==
    ForcedReturned =>
        /\ ModeGiven \in {"no", "NO"} /\ ~Falsy(proxy_mode_override) => ReturnedNull
        /\ (proxy_mode_override \in {"custom", "set"} /\ ~Falsy(custom_proxy_override))
              => req_proxies = ReqDict(custom_proxy_override, custom_proxy_override)
        /\ (proxy_mode_override = "win" /\ SystemProxyPresent)
              => req_proxies = ReqDict(ParsedServer(winreg.server).http,
                                       ParsedServer(winreg.server).https)
        /\ (Falsy(proxy_mode_override) /\ Falsy(EnvHttp(environ))
            /\ Falsy(EnvHttps(environ)) /\ ~SystemProxyPresent
            /\ Falsy(config.custom_proxy))
              => ReturnedNull

----------------------------------------------------------------------------
(* Claims on the browsers of a fetch (Spec)                                *)

\* the positions at which the operation `owner` holds a browser
HoldsBrowser(owner) ==
    CASE owner = "fetch_with_browser"    -> {"fwb_context", "fwb_page", "fwb_goto"}
      [] owner = "_fetch_wechat_article" -> {"wechat_context", "wechat_goto"}
      [] owner = "_fetch_xiaohongshu"    -> {"xhs_context", "xhs_goto"}
      [] owner = "interactive_login"     -> {"login_context", "login_goto",
                                            "login_input", "login_save"}

C12_HandlerFailureFallsThrough ==
    pc = "failed" => fwb_caller \in {"except", "use_browser"}

----------------------------------------------------------------------------
(* Claims on rescue and preprocessing (SpecExtract)                        *)

\* the primary tier returned: Readability gave a title and a summary, and
\* rescue ran on the summary
PrimaryReturned ==
    ex_pc = "done" /\ ex_outcome = "returned" /\ title = "doc.title()"

\* C13: when the text of Readability's summary is shorter than 50 characters,
\* the content rescue returns, and extract_content with it, is the summary
\* itself, unchanged.
C13_ShortSummaryReturnedAsIs ==
    (PrimaryReturned /\ StrLen(SummaryText(preprocessed_soup, html.top)) < 50)
        => content = SummaryHtml(html.top)

\* a summary of 40 characters whose text is in the document, returned as it is
C13_Witness ==
    /\ PrimaryReturned
    /\ StrLen(SummaryText(preprocessed_soup, html.top)) = 40
    /\ RescueNode(preprocessed_soup, SummaryText(preprocessed_soup, html.top)) # 0
    /\ content = SummaryHtml(html.top)

\* the text node rescue matched in the run that has returned
MatchedNode == RescueNode(preprocessed_soup, SummaryText(preprocessed_soup, html.top))

ImgCount(soup, a) == Cardinality(find_all(soup, a, {"img"}))

\* C14: whenever rescue matched a text node, the container it returns is an
\* ancestor of that node and holds at least as many images as the summary.
C14_RescueKeepsImages ==
    (PrimaryReturned /\ content.kind = "str(best_candidate)") =>
        /\ content.node \in Ancestors(preprocessed_soup, MatchedNode)
        /\ ImgCount(preprocessed_soup, content.node)
               >= ImgCount(preprocessed_soup, html.top)

\* the <source> children of element a that carry a source set
SourcesOf(soup, a) ==
    {j \in 1..Len(soup) : /\ soup[j].parent = a /\ soup[j].name = "source"
                          /\ ~Falsy(soup[j].attrs["srcset"])}

\* image i of the input has no src and no lazy attribute of its own, and sits
\* in a <picture> next to a <source> with a source set
BareImgInPicture(soup, i) ==
    /\ soup[i].name = "img" /\ 0 \in Ancestors(soup, i)
    /\ soup[i].parent > 0 /\ soup[soup[i].parent].name = "picture"
    /\ \A a \in AttrNames \ {"id"} : Falsy(soup[i].attrs[a])
    /\ SourcesOf(soup, soup[i].parent) # {}

\* C15: preprocessing <picture><source srcset="a.jpg 1x, b.jpg 2x"><img></picture>
\* leaves a single <img> whose src is a.jpg and no <picture> or <source>: an image
\* without a src of its own takes the first URL of its sibling <source>.
C15_PictureSourceGivesSrc ==
    preprocessed_soup # <<>> =>
        \A i \in 1..Len(html.dom) :
            BareImgInPicture(html.dom, i) =>
                /\ 0 \in Ancestors(preprocessed_soup, i)
                /\ find_all(preprocessed_soup, 0, {"picture", "source"}) = {}
                /\ preprocessed_soup[i].attrs["src"] =
                       FirstToken(html.dom[MinOf(SourcesOf(html.dom, html.dom[i].parent))]
                                      .attrs["srcset"])

----------------------------------------------------------------------------
(* Claims on the session store during a fetch (Spec)                       *)

\* C17: once an authenticated fetch has detected a redirect to a login URL, the
\* session that was in use is invalidated: whether the login that follows
\* succeeds or fails, load_state never again returns that session.
C17_RedirectInvalidatesSession ==
    \A s \in expired : s.kind = "session" => load_state(store) # s

----------------------------------------------------------------------------
(* _get_handler_for_url and the module-level cache _COMPILED_PATTERNS.     *)
(* The web server answers requests on threads of one process: two callers  *)
(* run the function, one step per statement that reads or writes the cache.*)

Callers == {1, 2}

MaxCalls == 3

Sites == {SiteOrder[k] : k \in 1..Len(SiteOrder)}

MatcherUrlSet ==
    { u \in UrlSet : u.path \in {"/", "/s/id", "/explore/id", "/user/status/1"} }

InitMatcher ==
    /\ compiled = [site \in Sites |-> 0]
    /\ m_pc = [t \in Callers |-> "idle"]
    /\ m_url = [t \in Callers |-> CHOOSE u \in MatcherUrlSet : TRUE]
    /\ m_site = [t \in Callers |-> 1]
    /\ m_calls = 0 /\ m_returned = 0 /\ m_late = {}
    /\ config = CHOOSE c \in FetchConfigSet : TRUE
    /\ environ = CHOOSE e \in FetchEnvironSet : TRUE
    /\ winreg = CHOOSE r \in WinregSet : ~r.importable
    /\ proxy_mode_override = Absent /\ custom_proxy_override = Absent
    /\ IdleProxy /\ IdlePolicy /\ IdleFetch /\ IdleExtract /\ IdleStore

notMatcher == <<sharedVars, proxyVars, policyVars, fetchVars, extractVars, storeVars>>

\* line 1056: a caller enters _get_handler_for_url(url); line 1066 starts the loop
MatcherCall(t) ==
    /\ m_pc[t] = "idle" /\ m_calls < MaxCalls
    /\ \E u \in MatcherUrlSet : m_url' = [m_url EXCEPT ![t] = u]
    /\ m_calls' = m_calls + 1
    /\ m_site' = [m_site EXCEPT ![t] = 1]
    /\ m_pc' = [m_pc EXCEPT ![t] = "check"]
    /\ UNCHANGED <<notMatcher, compiled, m_returned, m_late>>

\* line 1070: if site_name not in _COMPILED_PATTERNS
MatcherCheck(t) ==
    /\ m_pc[t] = "check"
    /\ m_pc' = [m_pc EXCEPT ![t] =
                   IF compiled[SiteOrder[m_site[t]]] = 0 THEN "compile" ELSE "match"]
    /\ UNCHANGED <<notMatcher, compiled, m_url, m_site, m_calls, m_returned, m_late>>

\* line 1071: _COMPILED_PATTERNS[site_name] = [re.compile(p) for p in patterns]
MatcherCompile(t) ==
    /\ m_pc[t] = "compile"
    /\ compiled' = [compiled EXCEPT ![SiteOrder[m_site[t]]] = @ + 1]
    /\ m_late' = IF m_returned > 0 THEN m_late \cup {SiteOrder[m_site[t]]} ELSE m_late
    /\ m_pc' = [m_pc EXCEPT ![t] = "match"]
    /\ UNCHANGED <<notMatcher, m_url, m_site, m_calls, m_returned>>

\* lines 1073-1079: try the site's patterns; return on a match, go on to the
\* next site otherwise, return (None, None, None) after the last
MatcherMatch(t) ==
    /\ m_pc[t] = "match"
    /\ IF SiteMatches(SiteOrder[m_site[t]], m_url[t]) \/ m_site[t] = Len(SiteOrder)
       THEN /\ m_pc' = [m_pc EXCEPT ![t] = "idle"]
            /\ m_returned' = m_returned + 1
            /\ UNCHANGED m_site
       ELSE /\ m_pc' = [m_pc EXCEPT ![t] = "check"]
            /\ m_site' = [m_site EXCEPT ![t] = @ + 1]
            /\ UNCHANGED m_returned
    /\ UNCHANGED <<notMatcher, compiled, m_url, m_calls, m_late>>

NextMatcher ==
    \E t \in Callers :
        MatcherCall(t) \/ MatcherCheck(t) \/ MatcherCompile(t) \/ MatcherMatch(t)

SpecMatcher == InitMatcher /\ [][NextMatcher]_vars

----------------------------------------------------------------------------
(* Claims on the pattern cache (SpecMatcher)                               *)

\* C18: the cache is not mutated after its first use: once a call of the matcher
\* has returned, no call stores an entry, and each site's patterns are compiled
\* at most once.
C18_CacheFrozenAfterFirstUse ==
    /\ m_late = {}
    /\ \A site \in Sites : compiled[site] <= 1

----------------------------------------------------------------------------
(* Claims on the proxies of a Twitter/X fetch (Spec)                       *)

\* C19: during the fetch of a Twitter/X URL every network retrieval uses the
\* proxies of the forced resolution: the HTTP requests its requests proxies,
\* the browser launches its Playwright proxy.
C19_TwitterAlwaysForcedProxy ==
    is_twitter_url(url) =>
        \A c \in net_calls :
            IF c.what \in {"requests.get", "oembed"}
            THEN c.req = ForcedProxies[1]
            ELSE c.pw = ForcedProxies[2]

----------------------------------------------------------------------------
(* Claims on the win mode of the resolver (SpecProxy)                      *)

\* _get_proxies has returned, and the mode it worked with is m
ResolvedWith(m) ==
    /\ px_pc = "returned" /\ px_fn = "_get_proxies"
    /\ IF ~Falsy(proxy_mode_override)
       THEN Lower(proxy_mode_override) = m
       ELSE Lower(ConfigProxyMode(config)) = m

\* the OS setting is present: the registry can be read, the proxy is enabled
\* and ProxyServer is not empty
SettingPresent ==
    winreg.importable /\ winreg.readable /\ winreg.enable /\ winreg.server # <<>>

\* the result is what the OS setting spells
ResultIsParsedSetting ==
    LET p == ParsedServer(winreg.server)
    IN  /\ req_proxies = IF p.http = Absent /\ p.https = Absent
                         THEN NoneReq ELSE ReqDict(p.http, p.https)
        /\ pw_proxy = IF Falsy(p.server) THEN NonePw ELSE PwDict(p.server, Absent)

SettingYieldsHttp ==
    LET p == ParsedServer(winreg.server)
    IN  p.http # Absent \/ p.https # Absent

----------------------------------------------------------------------------
(* Claims on the termination of Fetcher.fetch (LiveSpec)                   *)

----------------------------------------------------------------------------
(* Claims on _preprocess_html (SpecExtract)                                *)

\* _preprocess_html has returned its soup
Normalized == preprocessed_soup # <<>>

\* the img elements of the document given to _preprocess_html
InputImgs == find_all(html.dom, 0, {"img"})

\* the first lazy-load attribute, from position k on, that has a value; 0 if none
RECURSIVE FirstNonEmpty(_, _)
FirstNonEmpty(attrs, k) ==
    IF k > Len(LazyAttrs) THEN 0
    ELSE IF Falsy(attrs[LazyAttrs[k]]) THEN FirstNonEmpty(attrs, k + 1)
    ELSE k

\* C22: an img whose src is absent (or empty) or an inline-data placeholder gets
\* as src the first URL token of its first non-empty lazy-load attribute, with
\* a leading // made https://, and that src is never empty; an img with a real
\* src keeps it.
C22_SrcNormalized ==
    Normalized =>
        \A i \in InputImgs :
            LET attrs == html.dom[i].attrs
                out   == preprocessed_soup[i].attrs["src"]
                k     == FirstNonEmpty(attrs, 1)
            IN  IF Falsy(attrs["src"]) \/ IsDataImage(attrs["src"])
                THEN k # 0 => /\ out = WithScheme(FirstToken(attrs[LazyAttrs[k]]))
                              /\ ~Falsy(out)
                ELSE out = attrs["src"]

\* the picture and source ancestors that node i reaches through picture,
\* source and figure wrappers only
RECURSIVE WrappingPictures(_, _)
WrappingPictures(soup, i) ==
    LET parent == ParentOf(soup, i)
    IN  IF parent <= 0 \/ NameOf(soup, parent) \notin {"picture", "source", "figure"}
        THEN {}
        ELSE (IF NameOf(soup, parent) = "figure" THEN {} ELSE {parent})
             \cup WrappingPictures(soup, parent)

\* C23: after _preprocess_html no img wrapped in picture/source/figure elements
\* has a picture or source ancestor left, also when a figure lies between the
\* img and the picture, and no figure of the document has been removed.
C23_PicturesFlattened ==
    Normalized =>
        /\ \A i \in InputImgs : WrappingPictures(preprocessed_soup, i) = {}
        /\ \A f \in find_all(html.dom, 0, {"figure"}) :
              f \in find_all(preprocessed_soup, 0, {"figure"})

----------------------------------------------------------------------------
(* Claims on the search and the walk of _rescue_content (SpecExtract)      *)

\* the text of the summary rescue was given
RescueText == SummaryText(preprocessed_soup, html.top)

\* rescue ran its searches: the primary tier returned and the summary was long
\* enough
RescueSearched == PrimaryReturned /\ StrLen(RescueText) >= MinSummaryText

\* C24: when the 100-character fingerprint is not found, the 30-character
\* fingerprint is searched in the order of the first attempt (body, then the
\* article, main, section and div containers that are not skipped for their
\* id); the summary is returned only if that search fails too.
C24_ShortSearchSameOrder ==
    (RescueSearched /\ SearchLong(preprocessed_soup, Prefix(RescueText, FingerprintLen)) = 0)
        => LET node == SearchLong(preprocessed_soup, Prefix(RescueText, ShortFingerprintLen))
           IN  content = IF node = 0 THEN SummaryHtml(html.top)
                         ELSE ContainerHtml(BestCandidate(preprocessed_soup, node))

\* the ancestors the walk from the matched node visits before it reaches a
WalkedBefore(a) ==
    {b \in Ancestors(preprocessed_soup, MatchedNode) : a \in Ancestors(preprocessed_soup, b)}

IsBodyOrHtml(a) == NameOf(preprocessed_soup, a) \in {"body", "html"}

\* an article boundary: an article or main element, or an id naming a content root
IsBoundary(a) ==
    /\ ~IsBodyOrHtml(a)
    /\ \/ NameOf(preprocessed_soup, a) \in {"article", "main"}
       \/ IdIn(preprocessed_soup, a, {"main", "content", "article"})

\* a is the first ancestor on the walk that is a boundary, or body/html
FirstStop(a) ==
    /\ a \in Ancestors(preprocessed_soup, MatchedNode)
    /\ IsBoundary(a) \/ IsBodyOrHtml(a)
    /\ \A b \in WalkedBefore(a) : ~IsBoundary(b) /\ ~IsBodyOrHtml(b)

HasImg(a) == find_all(preprocessed_soup, a, {"img"}) # {}

\* C25: given the matched text node, the walk from its parent upwards returns
\* the first ancestor that is an article boundary; when body or html comes
\* first it returns the outermost ancestor below it that holds an image, or
\* the node's parent when none does.
C25_ContainerSelection ==
    (RescueSearched /\ MatchedNode # 0) =>
        \A a \in Ancestors(preprocessed_soup, MatchedNode) :
            FirstStop(a) =>
                IF IsBoundary(a) THEN content = ContainerHtml(a)
                ELSE LET withImg == {b \in WalkedBefore(a) : HasImg(b)}
                     IN  IF withImg = {}
                         THEN content = ContainerHtml(ParentOf(preprocessed_soup, MatchedNode))
                         ELSE /\ content.kind = "str(best_candidate)"
                              /\ content.node \in withImg
                              /\ \A b \in withImg : b \in Descendants(preprocessed_soup, content.node)
                                                    \/ b = content.node

\* body was reached, and the container returned is an ancestor of the node's
\* parent because it holds an image
C25_Witness ==
    /\ RescueSearched /\ MatchedNode # 0
    /\ \E a \in Ancestors(preprocessed_soup, MatchedNode) : FirstStop(a) /\ IsBodyOrHtml(a)
    /\ content.kind = "str(best_candidate)"
    /\ content.node \in Ancestors(preprocessed_soup, ParentOf(preprocessed_soup, MatchedNode))
    /\ ~HasImg(ParentOf(preprocessed_soup, MatchedNode))

----------------------------------------------------------------------------
(* AuthHandler's session files.                                            *)
(* A file is [exists, data]; data is what json.dump has written so far, as *)
(* the sequence of its buffer flushes: a complete state k is <<k, k>>.     *)

StoreSites == {"xiaohongshu", "twitter"}

\* the names a site can be given on the command line
TypedNames == {"xiaohongshu", "Xiaohongshu", "all", "ALL"}

FileNames == StoreSites \cup {"Xiaohongshu"}

MaxOps == 4

Missing == [exists |-> FALSE, data |-> <<>>]

Whole(k) == [exists |-> TRUE, data |-> <<k, k>>]

\* _get_state_file: f"{site_name}_state.json", as the file the name reaches
get_state_file(nocase, site_name) == IF nocase THEN Lower(site_name) ELSE site_name

\* lines 2072-2081: None when the file is missing or json.load raises
ParseFile(file) ==
    IF file.exists /\ Len(file.data) = 2 /\ file.data[1] = file.data[2]
    THEN Session(file.data[1])
    ELSE NoSession

\* what load_state(site_name) returns
LoadOf(site_name) == ParseFile(as_files[get_state_file(as_nocase, site_name)])

\* lines 2092-2099: the file after save_state(site_name, k); an exception of
\* open, or of json.dump after open has emptied the file, is logged and swallowed
SaveOutcomes(file, k) ==
    {Whole(k), file, [exists |-> TRUE, data |-> <<>>], [exists |-> TRUE, data |-> <<k>>]}

InitAuth ==
    /\ as_nocase \in BOOLEAN
    /\ as_dir = TRUE
    /\ as_files \in [FileNames -> {Missing, Whole(0)}]
    /\ as_files["Xiaohongshu"] = IF as_nocase THEN as_files["xiaohongshu"] ELSE Missing
    /\ as_saved = [s \in StoreSites |-> ParseFile(as_files[s])]
    /\ as_op = [kind |-> "none", site |-> Absent]
    /\ as_result = NoSession
    /\ as_ops = 0
    /\ w_pc = <<>> /\ w_finished = <<>>
    /\ config = CHOOSE c \in FetchConfigSet : TRUE
    /\ environ = CHOOSE e \in FetchEnvironSet : TRUE
    /\ winreg = CHOOSE r \in WinregSet : ~r.importable
    /\ proxy_mode_override = Absent /\ custom_proxy_override = Absent
    /\ IdleProxy /\ IdlePolicy /\ IdleFetch /\ IdleExtract /\ IdleMatcher

notStore == <<sharedVars, proxyVars, policyVars, fetchVars, extractVars, matcherVars>>

\* the files after a write to, or a removal of, the file a name reaches; on a
\* file system that ignores case both spellings are the same file
WithFile(site_name, file) ==
    [n \in FileNames |->
        IF get_state_file(as_nocase, n) = get_state_file(as_nocase, site_name)
        THEN file ELSE as_files[n]]

\* lines 2084-2099: save_state(site, k) with a new storage state k
SaveState(site) ==
    /\ as_ops < MaxOps
    /\ \E file \in SaveOutcomes(as_files[get_state_file(as_nocase, site)], as_ops + 1) :
          as_files' = WithFile(site, file)
    /\ as_dir' = TRUE
    /\ as_saved' = [as_saved EXCEPT ![site] = Session(as_ops + 1)]
    /\ as_op' = [kind |-> "save", site |-> site]
    /\ as_ops' = as_ops + 1
    /\ UNCHANGED <<notStore, as_nocase, as_result, w_pc, w_finished>>

\* lines 2061-2082: load_state(site)
LoadState(site) ==
    /\ as_ops < MaxOps
    /\ as_result' = LoadOf(site)
    /\ as_dir' = TRUE
    /\ as_op' = [kind |-> "load", site |-> site]
    /\ as_ops' = as_ops + 1
    /\ UNCHANGED <<notStore, as_nocase, as_files, as_saved, w_pc, w_finished>>

\* lines 2109-2113: clear_state(site_name) with a name
ClearOne(site_name) ==
    /\ as_files' = WithFile(site_name, Missing)
    /\ as_dir' = TRUE

\* lines 2114-2118: clear_state() - the directory and all it holds
ClearAll ==
    /\ as_files' = [n \in FileNames |-> Missing]
    /\ as_dir' = FALSE

\* lines 2101-2118: clear_state(site) called with a site
ClearState(site) ==
    /\ as_ops < MaxOps
    /\ ClearOne(site)
    /\ as_saved' = [as_saved EXCEPT ![site] = NoSession]
    /\ as_op' = [kind |-> "clear", site |-> site]
    /\ as_ops' = as_ops + 1
    /\ UNCHANGED <<notStore, as_nocase, as_result, w_pc, w_finished>>

\* lines 2387-2393: --clear-auth NAME; --login NAME takes the site as
\* NAME.lower() (line 2396)
MainClearAuth(typed) ==
    /\ as_ops < MaxOps
    /\ IF Lower(typed) = "all"
       THEN /\ ClearAll
            /\ as_saved' = [s \in StoreSites |-> NoSession]
       ELSE /\ ClearOne(typed)
            /\ as_saved' = [as_saved EXCEPT ![Lower(typed)] = NoSession]
    /\ as_op' = [kind |-> "clear-auth", site |-> typed]
    /\ as_ops' = as_ops + 1
    /\ UNCHANGED <<notStore, as_nocase, as_result, w_pc, w_finished>>

NextAuth ==
    \/ \E site \in StoreSites : SaveState(site) \/ LoadState(site) \/ ClearState(site)
    \/ \E typed \in TypedNames : MainClearAuth(typed)

SpecAuth == InitAuth /\ [][NextAuth]_vars

----------------------------------------------------------------------------
(* Claims on the session store (SpecAuth)                                  *)

\* C26: over every sequence of saves, loads and clears, load(s) returns the
\* session saved last for s since the last clear that covers s, and none
\* otherwise; so a clear of s, or of all, leaves none for s, and a load or an
\* operation on another site leaves the session of s as it was.
C26_StoreContract ==
    /\ \A site \in StoreSites : LoadOf(site) = as_saved[site]
    /\ as_op.kind = "load" => as_result = as_saved[as_op.site]

----------------------------------------------------------------------------
(* Claims on interactive_login and the session of a fetch (Spec)           *)

\* interactive_login has just returned True to _fetch_xiaohongshu: line 892
\* goes on to the launch, line 926 has entered the recursive call
LoginReturnedTrue ==
    \/ pc = "xhs_launch" /\ login_caller = "precheck"
    \/ pc = "xhs_load_state" /\ xhs_depth > 0

\* C27: interactive_login returns True only if the session it captured was
\* persisted: after a True return load_state gives that session.
C27_TrueMeansPersisted ==
    LoginReturnedTrue => load_state(store) = Session(login_count)

----------------------------------------------------------------------------
(* Two callers of save_state for one site, and load_state between their    *)
(* steps.  A storage state larger than the file object's buffer reaches    *)
(* the file in more than one write; each writer has its own file position. *)

Writers == {1, 2}

WrittenSite == "xiaohongshu"

\* the bytes of a region no writer has written after the file was emptied
Hole == 0 - 1

\* the state parsed from a file whose parts come from different writes
Mixed == 0 - 2

\* the file after a write of part k at position pos (pos 0 or 1)
WriteAt(file, pos, k) ==
    [exists |-> TRUE,
     data |-> IF pos = 0
              THEN IF file.data = <<>> THEN <<k>> ELSE <<k>> \o Tail(file.data)
              ELSE IF file.data = <<>> THEN <<Hole, k>> ELSE <<file.data[1], k>>]

\* lines 2072-2081 on a file two writers may have written: parts of one state
\* parse as that state; parts of two states are either not JSON (None) or
\* JSON that is neither state
LoadResults(file) ==
    IF file.exists /\ Len(file.data) = 2 /\ file.data[1] # file.data[2]
       /\ file.data[1] >= 0 /\ file.data[2] >= 0
    THEN {NoSession, Session(Mixed)}
    ELSE {ParseFile(file)}

InitWriters ==
    /\ as_nocase = FALSE
    /\ as_dir = TRUE
    /\ \E f \in {Missing, Whole(0)} :
          as_files = [n \in FileNames |-> IF n = WrittenSite THEN f ELSE Missing]
    /\ as_saved = [s \in StoreSites |-> ParseFile(as_files[s])]
    /\ as_op = [kind |-> "none", site |-> Absent]
    /\ as_result = NoSession
    /\ as_ops = 0
    /\ w_pc = [w \in Writers |-> "idle"]
    /\ w_finished = <<>>
    /\ config = CHOOSE c \in FetchConfigSet : TRUE
    /\ environ = CHOOSE e \in FetchEnvironSet : TRUE
    /\ winreg = CHOOSE r \in WinregSet : ~r.importable
    /\ proxy_mode_override = Absent /\ custom_proxy_override = Absent
    /\ IdleProxy /\ IdlePolicy /\ IdleFetch /\ IdleExtract /\ IdleMatcher

\* line 2094: open(state_file, "w") empties the file
WriterOpen(w) ==
    /\ w_pc[w] = "idle"
    /\ as_files' = [as_files EXCEPT ![WrittenSite] = [exists |-> TRUE, data |-> <<>>]]
    /\ w_pc' = [w_pc EXCEPT ![w] = "opened"]
    /\ as_op' = [kind |-> "open", site |-> WrittenSite]
    /\ UNCHANGED <<notStore, as_nocase, as_dir, as_saved, as_result, as_ops, w_finished>>

\* line 2096: json.dump fills the buffer, which is written out at position 0
WriterFlush(w) ==
    /\ w_pc[w] = "opened"
    /\ as_files' = [as_files EXCEPT ![WrittenSite] = WriteAt(@, 0, w)]
    /\ w_pc' = [w_pc EXCEPT ![w] = "flushed"]
    /\ as_op' = [kind |-> "write", site |-> WrittenSite]
    /\ UNCHANGED <<notStore, as_nocase, as_dir, as_saved, as_result, as_ops, w_finished>>

\* the end of the with block: the rest is written at position 1, the file is
\* closed and save_state returns
WriterClose(w) ==
    /\ w_pc[w] = "flushed"
    /\ as_files' = [as_files EXCEPT ![WrittenSite] = WriteAt(@, 1, w)]
    /\ w_pc' = [w_pc EXCEPT ![w] = "closed"]
    /\ w_finished' = Append(w_finished, w)
    /\ as_saved' = [as_saved EXCEPT ![WrittenSite] = Session(w)]
    /\ as_op' = [kind |-> "close", site |-> WrittenSite]
    /\ UNCHANGED <<notStore, as_nocase, as_dir, as_result, as_ops>>

\* lines 2061-2082: a load_state of the site between two steps of the writers
LoadBetween ==
    /\ as_ops < MaxOps
    /\ \E r \in LoadResults(as_files[WrittenSite]) : as_result' = r
    /\ as_op' = [kind |-> "load", site |-> WrittenSite]
    /\ as_ops' = as_ops + 1
    /\ UNCHANGED <<notStore, as_nocase, as_dir, as_files, as_saved, w_pc, w_finished>>

NextWriters ==
    \/ \E w \in Writers : WriterOpen(w) \/ WriterFlush(w) \/ WriterClose(w)
    \/ LoadBetween

SpecWriters == InitWriters /\ [][NextWriters]_vars

----------------------------------------------------------------------------
(* Claims on concurrent writers of one session file (SpecWriters)          *)

\* C28: with two concurrent writers of one site's session, the session stored
\* when both have finished is that of the writer that finished last, and every
\* load between their steps returns a complete written session, the session
\* stored before, or none.
C28_LastWriterWins ==
    /\ Len(w_finished) = Cardinality(Writers)
           => LoadOf(WrittenSite) = Session(w_finished[Len(w_finished)])
    /\ as_op.kind = "load"
           => as_result \in {NoSession, Session(0)} \cup {Session(w) : w \in Writers}

\* C29: whenever the fetch of an authenticated site navigates to the target
\* URL, the context it navigates with was created from a persisted session.
C29_NavigatesWithSession ==
    pc = "xhs_goto" => ctx_state.kind = "session"

\* C30: _preprocess_html returns normally on every document, also on a picture
\* that holds more than one img, and its output has as many img elements as
\* its input.
C30_NoImageLost ==
    ex_pc # "preprocess" =>
        /\ Normalized
        /\ ImgCount(preprocessed_soup, 0) = ImgCount(html.dom, 0)

====
